---- MODULE Spec2Model ----
(***************************************************************************)
(* Voice-command pipeline of the CoolPlay player: the matcher              *)
(* (findMatchingCommand), the listening state machine of the               *)
(* VoiceControlProvider (startListening / stopListening /                  *)
(* toggleAlwaysListening and the callbacks they install), the dispatcher   *)
(* (processCommand / executeCommand / saveSettings) and the player         *)
(* screen's 'voiceCommand' listener.                                       *)
(*                                                                         *)
(* React state is modelled by two records: st, the provider state after    *)
(* every queued setState updater has been applied, and view, the state of  *)
(* the latest render.  Every useCallback closure and the two refs          *)
(* startListeningRef / stopListeningRef are bound to a render, so a        *)
(* handler reads `state.x` from the render that created it: from view when *)
(* it is called through a ref or by a consumer, from the record stored     *)
(* with a session when it is one of the session's own callbacks.           *)
(***************************************************************************)
EXTENDS Integers, Sequences, FiniteSets, TLC

VARIABLES
    \* ---- matcher inputs and result (module-level catalog, part_001:7-12)
    voiceIntents,     \* voiceIntents.json: sequence of [intent, utterances]
    voiceCommands,    \* voiceCommands.json .commands: sequence of legacy commands
    language,         \* useLanguage().language
    text,             \* the transcript last given to findMatchingCommand
    matched,          \* what findMatchingCommand returned for it
    \* ---- provider state (part_001:45-57)
    st,               \* VoiceControlState, all updaters applied
    view,             \* VoiceControlState of the latest render
    platform,         \* which branch startListening takes (part_001:507-592)
    sess,             \* capture sessions ever opened, by id
    recognition,      \* recognition.current   (session id, 0 = null)
    mediaRecorder,    \* mediaRecorder.current (session id, 0 = null)
    keepAliveInterval,\* keepAliveInterval.current (interval id, 0 = null)
    intervals,        \* setInterval timers still armed (ids = arming session)
    restartTimers,    \* pending setTimeout(() => startListeningRef.current())
    toggles,          \* toggleAlwaysListening calls suspended in saveSettings
    frames,           \* pending requestAnimationFrame callbacks of processCommand
    saves,            \* executeCommand calls suspended in saveSettings
    storedSettings,   \* AsyncStorage['voiceControlSettings'], parsed
    \* ---- player screen (player.tsx:100-112)
    videoPlayer,      \* the expo-video player facade
    isFullscreen,     \* useState isFullscreen
    volume,           \* useState volume (the polled snapshot), in hundredths
    lastEvent,        \* detail of the last 'voiceCommand' event dispatched
    customCommands,   \* useState customCommands: sequence of custom commands
    commandForm,      \* commandName, commandAction, editingCommand, modal shown
    now,              \* Date.now(), counted in saves
    op,               \* the last player action and what the player held before it
    \* ---- the rest of the app
    asyncStorage,     \* AsyncStorage: the keys stored and their strings
    layout,           \* RootLayoutNav state (_layout.tsx:63-65)
    membership,       \* MembershipProvider: state, latest render, stored data
    bookmarks,        \* BookmarkProvider useState bookmarks
    folders,          \* BookmarkProvider useState folders
    originalBookmarks,\* BookmarkProvider useState originalBookmarks
    call,             \* the last storage or membership call and its outcome
    \* ---- history of the run, read by the properties only
    hist

vars == << voiceIntents, voiceCommands, language, text, matched,
           st, view, platform, sess, recognition, mediaRecorder,
           keepAliveInterval, intervals, restartTimers, toggles, frames, saves,
           storedSettings, videoPlayer, isFullscreen, volume, lastEvent,
           customCommands, commandForm, now, op, asyncStorage, layout,
           membership, bookmarks, folders, originalBookmarks, call, hist >>

matcherVars == << voiceIntents, voiceCommands, language, text, matched >>
providerVars == << st, view, platform, sess, recognition, mediaRecorder,
                   keepAliveInterval, intervals, restartTimers, toggles,
                   frames, saves, storedSettings >>
screenVars == << customCommands, commandForm, now, op >>
appVars == << asyncStorage, layout, membership, bookmarks, folders,
              originalBookmarks, call >>
playerVars == << videoPlayer, isFullscreen, volume, lastEvent, screenVars >>

----------------------------------------------------------------------------
(* JavaScript values *)

\* null where an object is expected (a command, a record)
Null == [null |-> TRUE]
\* undefined where a string is expected (a missing property)
Undefined == "undefined"

----------------------------------------------------------------------------
(* Strings are sequences of one-character strings.                         *)

\* String.prototype.toLowerCase on one character of the model alphabet
LowerChar(c) ==
    CASE c = "A" -> "a"
      [] c = "B" -> "b"
      [] c = "P" -> "p"
      [] OTHER -> c

toLowerCase(s) == [i \in 1..Len(s) |-> LowerChar(s[i])]

RECURSIVE TrimStart(_)
TrimStart(s) ==
    IF s # <<>> /\ Head(s) = " " THEN TrimStart(Tail(s)) ELSE s

RECURSIVE TrimEnd(_)
TrimEnd(s) ==
    IF s # <<>> /\ s[Len(s)] = " " THEN TrimEnd(SubSeq(s, 1, Len(s) - 1)) ELSE s

\* String.prototype.trim
trim(s) == TrimEnd(TrimStart(s))

\* String.prototype.includes
includes(s, u) ==
    \E i \in 0..(Len(s) - Len(u)) : SubSeq(s, i + 1, i + Len(u)) = u

----------------------------------------------------------------------------
(* The matcher: findMatchingCommand (part_001:245-313)                     *)

\* Array.isArray((x.utterances)[lang] || (x.utterances)['en']): a list that is
\* present is truthy even when it is empty, so only a missing key falls back
HasUtterances(utterances, lang) ==
    lang \in DOMAIN utterances \/ "en" \in DOMAIN utterances

UtterancesFor(utterances, lang) ==
    IF lang \in DOMAIN utterances THEN utterances[lang] ELSE utterances["en"]

\* normalizedUtterance.length / normalizedText.length, kept as a fraction;
\* a zero denominator is JavaScript's NaN (or Infinity), never compared true here
Score(num, den) == [num |-> num, den |-> den]

GreaterThan(a, b) ==
    /\ a.den # 0
    /\ b.den # 0
    /\ a.num * b.den > b.num * a.den

\* the literal 0.5 of part_001:308
Threshold == Score(1, 2)

\* the utterance taken as written, neither lowercased nor trimmed
NormUtterIntentRaw(utterance) == utterance

\* const normUtter = utterance.toLowerCase().trim()  (part_001:264)
NormUtterIntent(utterance) == trim(toLowerCase(utterance))

\* the comparison without its substring half: equality only
IntentUtteranceEquals(normalizedText, utterance) ==
    normalizedText = NormUtterIntent(utterance)

IntentUtteranceMatches(normalizedText, utterance) ==
    LET normUtter == NormUtterIntent(utterance)
    IN  normalizedText = normUtter \/ includes(normalizedText, normUtter)

\* the object literal returned by the intent pass (part_001:266-272)
IntentCommand(item) ==
    [ intent |-> item.intent, action |-> Undefined, slot |-> "null",
      usage_count |-> 1, utterances |-> item.utterances ]

\* for (const item of intents) ... (part_001:258-275), from item i on
RECURSIVE IntentPass(_, _, _, _)
IntentPass(intents, i, lang, normalizedText) ==
    IF i > Len(intents) THEN Null
    ELSE LET item == intents[i]
         IN  IF /\ HasUtterances(item.utterances, lang)
                /\ \E k \in 1..Len(UtterancesFor(item.utterances, lang)) :
                      IntentUtteranceMatches(normalizedText,
                          UtterancesFor(item.utterances, lang)[k])
             THEN IntentCommand(item)
             ELSE IntentPass(intents, i + 1, lang, normalizedText)

\* const normalizedUtterance = utterance.toLowerCase()  (part_001:289)
NormUtterLegacy(utterance) == toLowerCase(utterance)

\* the acceptance test with >= in place of >: a score of one half passes
AcceptAtHalf(bestMatch, bestScore) ==
    IF bestScore.den # 0 /\ 2 * bestScore.num >= bestScore.den
    THEN bestMatch ELSE Null

\* return bestScore > 0.5 ? bestMatch : null  (part_001:308)
Accept(bestMatch, bestScore) ==
    IF GreaterThan(bestScore, Threshold) THEN bestMatch ELSE Null

\* if (score > bestScore)  (part_001:299)
Improves(score, bestScore) == GreaterThan(score, bestScore)

\* for (const command of commands) for (const utterance of utterances) ...
\* (part_001:280-305), from utterance u of command c on
RECURSIVE LegacyPass(_, _, _, _, _, _, _)
LegacyPass(commands, c, u, lang, normalizedText, bestMatch, bestScore) ==
    IF c > Len(commands) THEN Accept(bestMatch, bestScore)
    ELSE
      LET command == commands[c] IN
      IF ~HasUtterances(command.utterances, lang)
      THEN LegacyPass(commands, c + 1, 1, lang, normalizedText, bestMatch, bestScore)
      ELSE
        LET utterances == UtterancesFor(command.utterances, lang) IN
        IF u > Len(utterances)
        THEN LegacyPass(commands, c + 1, 1, lang, normalizedText, bestMatch, bestScore)
        ELSE
          LET normalizedUtterance == NormUtterLegacy(utterances[u])
              score == Score(Len(normalizedUtterance), Len(normalizedText))
          IN  IF normalizedText = normalizedUtterance THEN command
              ELSE IF /\ includes(normalizedText, normalizedUtterance)
                      /\ Improves(score, bestScore)
              THEN LegacyPass(commands, c, u + 1, lang, normalizedText, command, score)
              ELSE LegacyPass(commands, c, u + 1, lang, normalizedText,
                              bestMatch, bestScore)

\* const normalizedText = text.toLowerCase().trim()  (part_001:252)
NormalizeText(t) == trim(toLowerCase(t))

findMatchingCommand(t, lang) ==
    IF t = <<>> THEN Null
    ELSE LET normalizedText == NormalizeText(t)
             byIntent == IntentPass(voiceIntents, 1, lang, normalizedText)
         IN  IF byIntent # Null THEN byIntent
             ELSE LegacyPass(voiceCommands, 1, 1, lang, normalizedText,
                             Null, Score(0, 1))

----------------------------------------------------------------------------
(* Bounds of the model                                                     *)

MaxSessions == 2      \* capture sessions opened in one run
MaxResults == 2       \* recognition results / transcription responses delivered
MaxToggles == 1       \* toggleAlwaysListening calls in one run
MaxInitUsage == 1     \* usageCount loaded from the persisted settings
MaxIntents == 2       \* entries of the intents catalog given to the matcher
MaxCommands == 2      \* entries of the legacy catalog given to the matcher
MaxTextLen == 3       \* length of the transcripts enumerated over the alphabet
MaxHeard == 3         \* recognition results delivered to a session that stays open

----------------------------------------------------------------------------
(* The catalog and the transcripts the listening machine runs with         *)

PauseWord == << "p", "a", "u", "s", "e" >>
LouderWord == << "l", "o", "u", "d" >>
NoiseWord == << "h", "m", "m" >>

MachineIntents ==
    << [ intent |-> "PauseVideoIntent", utterances |-> [ en |-> << PauseWord >> ] ] >>

\* a legacy grouped command: { utterances, action, usage_count }, no intent
MachineCommands ==
    << [ intent |-> Undefined, action |-> "volume_up", slot |-> "null",
         usage_count |-> 2, utterances |-> [ en |-> << LouderWord >> ] ] >>

MachineTranscripts == { PauseWord, LouderWord, NoiseWord }

\* result[0].confidence, in hundredths
Confidences == { 20, 85 }

----------------------------------------------------------------------------
(* Provider state (part_001:45-57)                                         *)

\* useState<VoiceControlState> initial value, with the fields loadSettings sets
InitialState(always, usage) ==
    [ isListening |-> FALSE, alwaysListening |-> always,
      usageCount |-> usage, isProcessing |-> FALSE ]

\* what the callbacks created by a render read of its state: state.isListening,
\* state.alwaysListening and, through executeCommand, state.usageCount
Closure(v) ==
    [ isListening |-> v.isListening, alwaysListening |-> v.alwaysListening,
      usageCount |-> v.usageCount ]

\* a capture session is open: the microphone is held by it
OpenStatuses == { "active", "stopping", "errored",
                  "acquiring", "recording", "stopped", "transcribing" }

\* a capture session is capturing audio for recognition
CapturingStatuses == { "active", "recording" }

IsOpen(s) == s.status \in OpenStatuses

\* the provider's mutable state as one value, so that a handler calling
\* another handler is the composition of their effects
Cur ==
    [ st |-> st, sess |-> sess, recognition |-> recognition,
      mediaRecorder |-> mediaRecorder, keepAliveInterval |-> keepAliveInterval,
      intervals |-> intervals, restartTimers |-> restartTimers,
      frames |-> frames, hist |-> hist ]

Commit(m) ==
    /\ st' = m.st
    /\ sess' = m.sess
    /\ recognition' = m.recognition
    /\ mediaRecorder' = m.mediaRecorder
    /\ keepAliveInterval' = m.keepAliveInterval
    /\ intervals' = m.intervals
    /\ restartTimers' = m.restartTimers
    /\ frames' = m.frames
    /\ hist' = m.hist

\* speech-recognition branch of startListening (part_001:508-583)
NewRecognition(c) ==
    [ kind |-> "recognition", status |-> "active", c |-> c,
      continuous |-> c.alwaysListening, stopTimer |-> FALSE, cause |-> "none",
      finals |-> 0 ]

\* recorder branch, suspended in getUserMedia (part_001:457)
NewRecorder(c) ==
    [ kind |-> "recorder", status |-> "acquiring", c |-> c,
      continuous |-> FALSE, stopTimer |-> FALSE, cause |-> "none",
      finals |-> 0 ]

\* if (state.alwaysListening) keepAliveInterval.current = setInterval(...)
\* (part_001:594-610): the previous interval id is overwritten, not cleared
ArmKeepAlive(m, c, id) ==
    IF c.alwaysListening
    THEN [ m EXCEPT !.keepAliveInterval = id, !.intervals = @ \cup { id } ]
    ELSE m

\* if (state.isListening) return  (part_001:503)
StartGuard(c) == ~c.isListening

\* startListening as created by a render with state c (part_001:501-615),
\* up to its first await
startListening(m, c) ==
    IF ~StartGuard(c) THEN m
    ELSE
      LET id == Len(m.sess) + 1
          overlap == \E k \in 1..Len(m.sess) : IsOpen(m.sess[k])
          m1 == [ m EXCEPT !.st.isListening = TRUE,
                           !.st.isProcessing = FALSE,
                           !.hist.stopped = FALSE,
                           !.hist.overlap = @ \/ overlap,
                           !.hist.mode = @ \/ (/\ platform = "recognition"
                                               /\ c.alwaysListening
                                                     # m.st.alwaysListening) ]
      IN  IF platform = "recognition"
          THEN ArmKeepAlive(
                 [ m1 EXCEPT !.sess = Append(@, NewRecognition(c)),
                             !.recognition = id ], c, id)
          ELSE [ m1 EXCEPT !.sess = Append(@, NewRecorder(c)) ]

\* the model follows a call that opens a session only below the bound
CanStart(c) == ~StartGuard(c) \/ Len(sess) < MaxSessions

\* SpeechRecognition.stop() / MediaRecorder.stop() on session k
StopSession(ss, k, from, to) ==
    IF k # 0 /\ ss[k].status = from
    THEN [ ss EXCEPT ![k].status = to, ![k].cause = "stop" ]
    ELSE ss

\* stopListening (part_001:617-649)
stopListening(m) ==
    LET s1 == StopSession(m.sess, m.recognition, "active", "stopping")
        s2 == StopSession(s1, m.mediaRecorder, "recording", "stopped")
    IN  [ m EXCEPT !.st.isListening = FALSE,
                   !.sess = s2,
                   !.recognition = 0,
                   !.intervals = @ \ { m.keepAliveInterval },
                   !.keepAliveInterval = 0,
                   !.hist.stopped = TRUE,
                   !.hist.idle = TRUE ]

\* processCommand as created by a render with state c (part_001:341-395):
\* the match and the dispatch run later, in a requestAnimationFrame callback
\* that keeps the usageCount of that render (through executeCommand).  `from`
\* names the transcript the call is for: its session, the number of the
\* utterance in that session, and whether it is the final transcript.
processCommand(m, c, t, confidence, from) ==
    IF t = <<>> THEN m
    ELSE [ m EXCEPT !.st.isProcessing = FALSE,
                    !.frames = @ \cup { [ id |-> m.hist.results,
                                          text |-> NormalizeText(t),
                                          confidence |-> confidence,
                                          usage |-> c.usageCount,
                                          late |-> m.hist.stopped,
                                          from |-> from ] } ]

\* const confidence = result[0].confidence || 0.7  (part_001:522)
ResultConfidence(confidence) == IF confidence = 0 THEN 70 ELSE confidence

\* a frame callback that leaves a command of low confidence alone
ConfidenceGates(confidence) == confidence >= 30

\* the frame callback runs executeCommand whatever the confidence
\* (part_001:362-368)
ConfidenceExecutes(confidence) ==
    IF confidence >= 30 THEN TRUE ELSE TRUE

\* !result.isFinal && confidence > 0.8  (part_001:529)
InterimDispatches(isFinal, confidence) == ~isFinal /\ confidence > 80

\* recognition.onresult of session k (part_001:516-547)
onresult(m, k, t, isFinal, result0confidence) ==
    LET c == m.sess[k].c
        confidence == ResultConfidence(result0confidence)
        from == [ sid |-> k, utterance |-> m.sess[k].finals, final |-> isFinal ]
        m0 == [ m EXCEPT !.hist.results = @ + 1,
                         !.sess[k].finals = IF isFinal THEN @ + 1 ELSE @ ]
        m1 == IF /\ Len(t) > 2
                 /\ InterimDispatches(isFinal, confidence)
                 /\ findMatchingCommand(NormalizeText(t), language) # Null
              THEN processCommand(m0, c, t, confidence, from)
              ELSE m0
    IN  IF t = <<>> THEN m0
        ELSE IF isFinal THEN processCommand(m1, c, t, confidence, from) ELSE m1

\* event.error === 'no-speech' && state.alwaysListening  (part_001:551)
ErrorRestarts(c, error) == error = "no-speech" /\ c.alwaysListening

\* recognition.onerror of session k (part_001:549-565); the browser ends the
\* session after the error, so its 'end' event is then pending
onerror(m, k, error) ==
    LET c == m.sess[k].c
        m1 == [ m EXCEPT !.sess[k].status = "errored", !.sess[k].cause = "error" ]
    IN  IF ErrorRestarts(c, error)
        THEN [ m1 EXCEPT !.restartTimers = @ \cup { << "error", k >> },
                         !.hist.err = IF @.sid = 0
                                      THEN [ sid |-> k, at |-> Len(m.sess),
                                             fired |-> FALSE, user |-> FALSE ]
                                      ELSE @ ]
        ELSE stopListening(m1)

\* state.alwaysListening && state.isListening  (part_001:568)
EndRestarts(c) == c.alwaysListening /\ c.isListening

\* recognition.onend of session k (part_001:567-580)
onend(m, k) ==
    LET c == m.sess[k].c
        m1 == [ m EXCEPT !.sess[k].status = "ended",
                         !.sess[k].cause = IF @ = "none" THEN "end" ELSE @ ]
    IN  IF EndRestarts(c)
        THEN [ m1 EXCEPT !.restartTimers = @ \cup { << "end", k >> } ]
        ELSE m1

\* recognition.current.state: SpeechRecognition defines no `state` attribute
\* (part_001:599 reads it all the same)
RecognitionState(k) == Undefined

\* the condition under which a keep-alive tick restarts (part_001:596-599)
KeepAliveRestarts(m, c) ==
    /\ c.alwaysListening
    /\ ~c.isListening
    /\ m.recognition # 0
    /\ RecognitionState(m.recognition) = "inactive"

\* the setInterval callback armed by session k (part_001:595-609)
keepAliveTick(m, k) ==
    IF KeepAliveRestarts(m, m.sess[k].c) THEN startListening(m, Closure(view)) ELSE m

\* getUserMedia resolved for session k: the recorder starts, the 5 s stop
\* timer is set, and startListening resumes (part_001:464-494, 594-610)
recorderStarted(m, k) ==
    ArmKeepAlive(
      [ m EXCEPT !.sess[k].status = "recording",
                 !.sess[k].stopTimer = TRUE,
                 !.mediaRecorder = k ], m.sess[k].c, k)

\* getUserMedia rejected: the catch of startWebRecording (part_001:495-498),
\* after which startListening resumes as if recording had started
recorderFailed(m, k) ==
    ArmKeepAlive(
      [ m EXCEPT !.sess[k].status = "failed",
                 !.st.isListening = FALSE ], m.sess[k].c, k)

\* the 5 s timer set by session k (part_001:490-494): it stops whatever
\* recorder mediaRecorder.current holds by then
stopTimerFired(m, k) ==
    LET r == m.mediaRecorder
        m1 == [ m EXCEPT !.sess[k].stopTimer = FALSE ]
    IN  IF r # 0 /\ m.sess[r].status = "recording"
        THEN [ m1 EXCEPT !.sess[r].status = "stopped", !.sess[r].cause = "timer" ]
        ELSE m1

\* mediaRecorder.onstop of session k up to the fetch (part_001:471-473, 398-413)
onstop(m, k) ==
    [ m EXCEPT !.sess[k].status = "transcribing", !.st.isProcessing = TRUE ]

\* state.alwaysListening && startListeningRef.current  (part_001:477)
StopRestarts(c) == c.alwaysListening

\* onstop with a transcribeAudio that has no finally block
transcribedWithoutFinally(m, k, outcome, t) ==
    LET c == m.sess[k].c
        from == [ sid |-> k, utterance |-> 0, final |-> TRUE ]
        m1 == IF outcome = "ok" THEN processCommand(m, c, t, 85, from) ELSE m
        m2 == [ m1 EXCEPT !.sess[k].status = "ended" ]
    IN  IF StopRestarts(c)
        THEN [ m2 EXCEPT !.restartTimers = @ \cup { << "onstop", k >> } ]
        ELSE m2

\* the rest of onstop once the transcription request has settled
\* (part_001:415-425, 475-484)
transcribed(m, k, outcome, t) ==
    LET c == m.sess[k].c
        from == [ sid |-> k, utterance |-> 0, final |-> TRUE ]
        m1 == IF outcome = "ok" THEN processCommand(m, c, t, 85, from) ELSE m
        m2 == [ m1 EXCEPT !.st.isProcessing = FALSE, !.sess[k].status = "ended" ]
    IN  IF StopRestarts(c)
        THEN [ m2 EXCEPT !.restartTimers = @ \cup { << "onstop", k >> } ]
        ELSE m2

----------------------------------------------------------------------------
(* The player screen (player.tsx:100-390).  Times are in seconds, volume   *)
(* and playback rate in hundredths.                                        *)

Min(a, b) == IF a < b THEN a ELSE b
Max(a, b) == IF a > b THEN a ELSE b

\* the screen state a 'voiceCommand' listener reads and writes
Screen == [ videoPlayer |-> videoPlayer, isFullscreen |-> isFullscreen,
            volume |-> volume ]

\* skipForward (player.tsx:135-145)
skipForward(p, seconds) ==
    [ p EXCEPT !.videoPlayer.currentTime =
                   Min(p.videoPlayer.currentTime + seconds, p.videoPlayer.duration) ]

\* a step back that is written as computed, below zero too
skipBackwardUnclamped(p, seconds) ==
    [ p EXCEPT !.videoPlayer.currentTime = p.videoPlayer.currentTime - seconds ]

\* skipBackward (player.tsx:147-156)
skipBackward(p, seconds) ==
    [ p EXCEPT !.videoPlayer.currentTime =
                   Max(p.videoPlayer.currentTime - seconds, 0) ]

\* setVideoVolume (player.tsx:158-167)
setVideoVolume(p, newVolume) ==
    LET clampedVolume == Max(0, Min(100, newVolume))
    IN  [ p EXCEPT !.videoPlayer.volume = clampedVolume, !.volume = clampedVolume ]

\* setVideoSpeed (player.tsx:169-177)
setVideoSpeed(p, rate) == [ p EXCEPT !.videoPlayer.playbackRate = rate ]

\* const { command } = event.detail || {}  (player.tsx:248)
DetailCommand(detail) ==
    IF "command" \in DOMAIN detail THEN detail.command ELSE Undefined

\* the switch of handleVoiceCommand (player.tsx:252-347)
ApplyIntent(p, command) ==
    CASE command = "PlayVideoIntent" -> [ p EXCEPT !.videoPlayer.playing = TRUE ]
      [] command = "PauseVideoIntent" -> [ p EXCEPT !.videoPlayer.playing = FALSE ]
      [] command = "StopVideoIntent" ->
             [ p EXCEPT !.videoPlayer.playing = FALSE, !.videoPlayer.currentTime = 0 ]
      [] command = "ReplayVideoIntent" ->
             [ p EXCEPT !.videoPlayer.currentTime = 0, !.videoPlayer.playing = TRUE ]
      [] command = "Forward10Intent" -> skipForward(p, 10)
      [] command = "Forward20Intent" -> skipForward(p, 20)
      [] command = "Forward30Intent" -> skipForward(p, 30)
      [] command = "Rewind10Intent" -> skipBackward(p, 10)
      [] command = "Rewind20Intent" -> skipBackward(p, 20)
      [] command = "Rewind30Intent" -> skipBackward(p, 30)
      [] command = "VolumeMaxIntent" -> setVideoVolume(p, 100)
      [] command = "MuteIntent" -> [ p EXCEPT !.videoPlayer.muted = TRUE ]
      [] command = "UnmuteIntent" -> [ p EXCEPT !.videoPlayer.muted = FALSE ]
      [] command = "VolumeUpIntent" -> setVideoVolume(p, Min(100, p.volume + 20))
      [] command = "VolumeDownIntent" -> setVideoVolume(p, Max(0, p.volume - 20))
      [] command = "EnterFullscreenIntent" -> [ p EXCEPT !.isFullscreen = TRUE ]
      [] command = "ExitFullscreenIntent" -> [ p EXCEPT !.isFullscreen = FALSE ]
      [] command = "SpeedHalfIntent" -> setVideoSpeed(p, 50)
      [] command = "SpeedNormalIntent" -> setVideoSpeed(p, 100)
      [] command = "Speed125Intent" -> setVideoSpeed(p, 125)
      [] command = "Speed150Intent" -> setVideoSpeed(p, 150)
      [] command = "Speed200Intent" -> setVideoSpeed(p, 200)
      [] OTHER -> p

\* a listener that pauses the video before it looks at the name
handleVoiceCommandPausing(p, detail) ==
    LET command == DetailCommand(detail)
    IN  IF command = Undefined \/ command = "" THEN p
        ELSE ApplyIntent([ p EXCEPT !.videoPlayer.playing = FALSE ], command)

\* handleVoiceCommand, the window listener for 'voiceCommand' (player.tsx:246-355)
handleVoiceCommand(p, detail) ==
    LET command == DetailCommand(detail)
    IN  IF command = Undefined \/ command = "" THEN p
        ELSE ApplyIntent(p, command)

\* new CustomEvent('voiceCommand', { detail: ... })  (part_001:326-332)
EventDetail(command) ==
    [ intent |-> command.intent, action |-> command.action, slot |-> command.slot ]

\* command.usage_count || 1  (part_001:319)
UsageWeight(command) ==
    IF command.usage_count = 0 THEN 1 ELSE command.usage_count

\* const newCount = state.usageCount + (command.usage_count || 1), with the
\* usageCount of the render that created executeCommand (part_001:319)
NewCount(usage, command) == usage + UsageWeight(command)

----------------------------------------------------------------------------
(* The listening machine: initial state and steps                          *)

\* saveSettings (part_001:178-243): the stored object with one validated field
\* replaced.  Its read and its write are taken as one step: what it reads
\* decides only the field it does not write.
saveSettings(stored, field, value) == [ stored EXCEPT ![field] = value ]

NoEvent == [ intent |-> "none", action |-> "none", slot |-> "null" ]

\* the custom-command form as the screen creates it (player.tsx:126-130)
EmptyForm ==
    [ commandName |-> << >>, commandAction |-> "", editingCommand |-> Null,
      showCustomCommandModal |-> FALSE ]

\* no player action yet
NoOp == [ path |-> "none", key |-> "none", volume |-> 0, currentTime |-> 0 ]

\* no frame callback has run yet.  Of the last one run: the transcript it
\* was for, how many commands have been executed in a row for that utterance,
\* its confidence, whether its text matched, whether the command was
\* executed, and isProcessing when the matcher ran
NoFrame ==
    [ from |-> [ sid |-> 0, utterance |-> 0, final |-> FALSE ], executions |-> 0,
      confidence |-> 0, matches |-> FALSE, executed |-> FALSE,
      isProcessing |-> FALSE ]

InitHist(usage) ==
    [ stopped |-> FALSE,   \* stop() ran and no startListening has opened since
      idle |-> FALSE,      \* stop() ran and no explicit start()/toggle call since
      overlap |-> FALSE,   \* a session was opened while another was open
      mode |-> FALSE,      \* a session was opened with continuous # alwaysListening
      late |-> FALSE,      \* a command ran for a result delivered while stopped
      weight |-> 0,        \* sum of the weights of the commands executed
      usage0 |-> usage,    \* usageCount at the start of the run
      err |-> [ sid |-> 0, at |-> 0, fired |-> FALSE, user |-> FALSE ],
      results |-> 0,       \* results and transcription responses delivered
      toggles |-> 0,       \* toggleAlwaysListening calls
      frame |-> NoFrame ]  \* the last frame callback of processCommand run

\* const MEMBERSHIP_LIMITS = { trial: { total: 2000 }, free: { daily: 30 }, ... }
\* (MembershipProvider.tsx:25-30)
TrialTotal == 2000
FreeDaily == 30
BasicDailyBonus == 40

\* useState<MembershipState> initial value (MembershipProvider.tsx:34-43);
\* lastResetDate is today
MembershipInitial ==
    [ tier |-> "trial", usageCount |-> 0, dailyUsageCount |-> 0,
      trialUsed |-> FALSE, trialUsageRemaining |-> TrialTotal,
      monthlyUsageRemaining |-> 0, isFirstLogin |-> TRUE ]

\* the membership provider holding the state s, rendered and saved: its
\* state, the state of its latest render, the stored 'membershipData', and
\* of the useFeature calls made since: how many, how many succeeded from a
\* render on the trial tier, what the last returned and whether it changed
\* the state or the stored data
Member(s) ==
    [ state |-> s, view |-> s, stored |-> s, start |-> s.trialUsageRemaining,
      calls |-> 0, trialUses |-> 0,
      last |-> [ returned |-> TRUE, changed |-> FALSE ] ]

\* a folder of the bookmark provider (BookmarkProvider.tsx:20-28)
Folder(id, builtIn, categoryId, held) ==
    [ id |-> id, builtIn |-> builtIn, categoryId |-> categoryId, bookmarks |-> held ]

\* const defaultFolders (BookmarkProvider.tsx:36-45)
defaultFolders ==
    << Folder("all", TRUE, Undefined, << >>),
       Folder("favorites", TRUE, Undefined, << >>),
       Folder("ai", TRUE, Undefined, << >>),
       Folder("work", TRUE, Undefined, << >>),
       Folder("study", TRUE, Undefined, << >>),
       Folder("entertainment", TRUE, Undefined, << >>),
       Folder("social", TRUE, Undefined, << >>),
       Folder("news", TRUE, Undefined, << >>) >>

\* no key stored
EmptyStorage == [ key \in {} |-> << >> ]

\* no call yet.  Of the last one: the function, the key, whether the key was
\* stored and with what, what the call returned, the settings before it; for
\* a bookmark operation the list of bookmarks before it
NoCall ==
    [ name |-> "none", key |-> "none", sid |-> 0, found |-> FALSE,
      before |-> << >>, isNull |-> TRUE, data |-> << >>, list |-> << >>,
      st0 |-> [ alwaysListening |-> FALSE, usageCount |-> 0 ] ]

\* the rest of the app as it is created, before anything is loaded
InitApp ==
    /\ asyncStorage = EmptyStorage
    /\ layout = [ showReferralModal |-> FALSE, showVoiceOnboarding |-> FALSE,
                  hasCheckedFirstTime |-> FALSE ]
    /\ membership = Member(MembershipInitial)
    /\ bookmarks = << >>
    /\ folders = defaultFolders
    /\ originalBookmarks = << >>
    /\ call = NoCall

InitMachine(always, usage) ==
    /\ st = InitialState(always, usage)
    /\ view = InitialState(always, usage)
    /\ storedSettings = [ alwaysListening |-> always, usageCount |-> usage ]
    /\ sess = << >>
    /\ recognition = 0
    /\ mediaRecorder = 0
    /\ keepAliveInterval = 0
    /\ intervals = {}
    /\ restartTimers = {}
    /\ toggles = {}
    /\ frames = {}
    /\ saves = {}
    /\ hist = InitHist(usage)

InitPlayer ==
    /\ videoPlayer = [ playing |-> TRUE, currentTime |-> 5, duration |-> 20,
                       volume |-> 60, muted |-> FALSE, playbackRate |-> 100 ]
    /\ isFullscreen = FALSE
    /\ volume = 60
    /\ lastEvent = NoEvent
    /\ customCommands = << >>
    /\ commandForm = EmptyForm
    /\ now = 0
    /\ op = NoOp

\* the state once loadSettings has run and the screen shows a playing video
Init ==
    /\ voiceIntents = MachineIntents
    /\ voiceCommands = MachineCommands
    /\ language = "en"
    /\ text = << >>
    /\ matched = Null
    /\ platform \in { "recognition", "recorder" }
    /\ \E always \in BOOLEAN, usage \in 0..MaxInitUsage : InitMachine(always, usage)
    /\ InitApp
    /\ InitPlayer

\* React has rendered the current state.  A render is scheduled as soon as a
\* state update is queued, so the next event (a press, a timer of 50 ms or
\* more, a network or storage response, a recognition event) finds it done;
\* what still reads an older state is the code that kept a closure of an older
\* render: the continuation of a call under way and the callbacks of a session.
Rendered == view = st

\* an explicit call by the user interface
ByUser(m) == [ m EXCEPT !.hist.idle = FALSE, !.hist.err.user = TRUE ]

restOfProvider == << view, platform, toggles, saves, storedSettings >>

\* React re-renders the provider: closures and refs now see the current state
Render ==
    /\ view # st
    /\ view' = st
    /\ UNCHANGED << matcherVars, playerVars, st, platform, sess, recognition,
                    mediaRecorder, keepAliveInterval, intervals, restartTimers,
                    toggles, frames, saves, storedSettings, hist, appVars >>

\* the mic button or the onboarding calls startListening (player.tsx:702-716,
\* _layout.tsx:122-133)
UserStart ==
    /\ Rendered
    /\ CanStart(Closure(view))
    /\ Commit(startListening(ByUser(Cur), Closure(view)))
    /\ UNCHANGED << matcherVars, playerVars, restOfProvider, appVars >>

\* the mic button calls stopListening (player.tsx:718-731)
UserStop ==
    /\ Rendered
    /\ Commit(stopListening(ByUser(Cur)))
    /\ UNCHANGED << matcherVars, playerVars, restOfProvider, appVars >>

\* toggleAlwaysListening up to its await of saveSettings (part_001:651-658)
UserToggle ==
    /\ Rendered
    /\ hist.toggles < MaxToggles
    /\ LET newValue == ~view.alwaysListening
           m == ByUser(Cur)
       IN  /\ Commit([ m EXCEPT !.st.alwaysListening = newValue,
                                !.hist.toggles = @ + 1 ])
           /\ toggles' = toggles \cup { [ id |-> hist.toggles, c |-> Closure(view),
                                          newValue |-> newValue ] }
    /\ UNCHANGED << matcherVars, playerVars, view, platform, saves, storedSettings, appVars >>

\* saveSettings({ alwaysListening }) completes, then the rest of
\* toggleAlwaysListening runs with the startListening of its own render
\* (part_001:656-668)
ToggleResume(tg) ==
    /\ Rendered
    /\ tg \in toggles
    /\ tg.newValue => CanStart(tg.c)
    /\ toggles' = toggles \ { tg }
    /\ storedSettings' = saveSettings(storedSettings, "alwaysListening", tg.newValue)
    /\ Commit(IF tg.newValue THEN startListening(ByUser(Cur), tg.c)
                          ELSE stopListening(ByUser(Cur)))
    /\ UNCHANGED << matcherVars, playerVars, view, platform, saves, appVars >>

Sessions == 1..Len(sess)


\* the recognition service delivers a result to session k; after stop() it
\* may still return a final result for the audio it has (Web Speech API)
RecognitionResult(k, t, isFinal, confidence) ==
    /\ Rendered
    /\ k \in Sessions
    /\ sess[k].kind = "recognition"
    /\ \/ sess[k].status = "active"
       \/ sess[k].status = "stopping" /\ isFinal
    /\ Commit(onresult(Cur, k, t, isFinal, confidence))
    /\ UNCHANGED << matcherVars, playerVars, restOfProvider, appVars >>

\* the recognition service reports an error on session k
RecognitionError(k, error) ==
    /\ Rendered
    /\ k \in Sessions
    /\ sess[k].kind = "recognition"
    /\ sess[k].status = "active"
    /\ Commit(onerror(Cur, k, error))
    /\ UNCHANGED << matcherVars, playerVars, restOfProvider, appVars >>

\* session k ends by itself (silence, end of a non-continuous utterance)
RecognitionEnds(k) ==
    /\ Rendered
    /\ k \in Sessions
    /\ sess[k].kind = "recognition"
    /\ sess[k].status = "active"
    /\ Commit(onend(Cur, k))
    /\ UNCHANGED << matcherVars, playerVars, restOfProvider, appVars >>

\* the 'end' event that follows stop() or an error on session k
RecognitionClosed(k) ==
    /\ Rendered
    /\ k \in Sessions
    /\ sess[k].kind = "recognition"
    /\ sess[k].status \in { "stopping", "errored" }
    /\ Commit(onend(Cur, k))
    /\ UNCHANGED << matcherVars, playerVars, restOfProvider, appVars >>

\* a restart timeout fires: startListeningRef.current() (part_001:479-483,
\* 553-561, 570-578)
RestartTimer(tm) ==
    /\ Rendered
    /\ tm \in restartTimers
    /\ CanStart(view)
    /\ LET m == [ Cur EXCEPT !.restartTimers = @ \ { tm },
                             !.hist.err.fired =
                                 @ \/ tm = << "error", hist.err.sid >> ]
       IN  Commit(startListening(m, Closure(view)))
    /\ UNCHANGED << matcherVars, playerVars, restOfProvider, appVars >>

\* the 5 s keep-alive interval armed by session k fires (part_001:595-609)
KeepAliveTick(k) ==
    /\ Rendered
    /\ k \in intervals
    /\ KeepAliveRestarts(Cur, sess[k].c) => CanStart(view)
    /\ Commit(keepAliveTick(Cur, k))
    /\ UNCHANGED << matcherVars, playerVars, restOfProvider, appVars >>

GetUserMediaResolved(k) ==
    /\ Rendered
    /\ k \in Sessions
    /\ sess[k].status = "acquiring"
    /\ Commit(recorderStarted(Cur, k))
    /\ UNCHANGED << matcherVars, playerVars, restOfProvider, appVars >>

GetUserMediaRejected(k) ==
    /\ Rendered
    /\ k \in Sessions
    /\ sess[k].status = "acquiring"
    /\ Commit(recorderFailed(Cur, k))
    /\ UNCHANGED << matcherVars, playerVars, restOfProvider, appVars >>

StopTimer(k) ==
    /\ Rendered
    /\ k \in Sessions
    /\ sess[k].stopTimer
    /\ Commit(stopTimerFired(Cur, k))
    /\ UNCHANGED << matcherVars, playerVars, restOfProvider, appVars >>

RecorderStopped(k) ==
    /\ Rendered
    /\ k \in Sessions
    /\ sess[k].status = "stopped"
    /\ Commit(onstop(Cur, k))
    /\ UNCHANGED << matcherVars, playerVars, restOfProvider, appVars >>

\* the transcription request of session k returns 2xx with the text t
TranscriptionSucceeded(k, t) ==
    /\ Rendered
    /\ k \in Sessions
    /\ sess[k].status = "transcribing"
    /\ hist.results < MaxResults
    /\ Commit(transcribed([ Cur EXCEPT !.hist.results = @ + 1 ], k, "ok", t))
    /\ UNCHANGED << matcherVars, playerVars, restOfProvider, appVars >>

\* the transcription request of session k returns another status, or the
\* fetch is rejected
TranscriptionFailed(k, outcome) ==
    /\ Rendered
    /\ k \in Sessions
    /\ sess[k].status = "transcribing"
    /\ outcome # "ok"
    /\ Commit(transcribed(Cur, k, outcome, << >>))
    /\ UNCHANGED << matcherVars, playerVars, restOfProvider, appVars >>

\* the requestAnimationFrame callback of processCommand, then executeCommand
\* up to its await of saveSettings (part_001:357-375, 315-324)
AnimationFrame(f) ==
    /\ Rendered
    /\ f \in frames
    /\ LET command == findMatchingCommand(f.text, language)
           executes == command # Null /\ ConfidenceExecutes(f.confidence)
           sameUtterance == /\ hist.frame.from.sid = f.from.sid
                            /\ hist.frame.from.utterance = f.from.utterance
           ran == [ from |-> f.from,
                    executions |->
                        (IF sameUtterance THEN hist.frame.executions ELSE 0)
                          + (IF executes THEN 1 ELSE 0),
                    confidence |-> f.confidence,
                    matches |-> command # Null,
                    executed |-> executes,
                    isProcessing |-> st.isProcessing ]
           m == [ Cur EXCEPT !.frames = @ \ { f }, !.hist.frame = ran ]
       IN  /\ IF ~executes
              THEN Commit(m) /\ saves' = saves
              ELSE /\ Commit([ m EXCEPT
                         !.st.usageCount = NewCount(f.usage, command),
                         !.hist.weight = @ + UsageWeight(command),
                         !.hist.late = @ \/ f.late ])
                   /\ saves' = saves \cup
                        { [ id |-> f.id, newCount |-> NewCount(f.usage, command),
                            command |-> command ] }
    /\ UNCHANGED << matcherVars, playerVars, view, platform, toggles,
                    storedSettings, appVars >>

\* saveSettings({ usageCount }) completes, then executeCommand dispatches the
\* event and the player screen's listener runs (part_001:322-335; player.tsx:358)
SaveDone(sv) ==
    /\ Rendered
    /\ sv \in saves
    /\ saves' = saves \ { sv }
    /\ storedSettings' = saveSettings(storedSettings, "usageCount", sv.newCount)
    /\ lastEvent' = EventDetail(sv.command)
    /\ LET p == handleVoiceCommand(Screen, EventDetail(sv.command))
       IN  /\ videoPlayer' = p.videoPlayer
           /\ isFullscreen' = p.isFullscreen
           /\ volume' = p.volume
    /\ UNCHANGED << matcherVars, st, view, platform, sess, recognition,
                    mediaRecorder, keepAliveInterval, intervals, restartTimers,
                    toggles, frames, hist, screenVars, appVars >>

Errors == { "no-speech", "network" }
Outcomes == { "ok", "http", "throw" }

\* the listening machine without recognition results: sessions, timers,
\* errors and the always-listening toggle
Next ==
    \/ Render
    \/ UserStart
    \/ UserStop
    \/ UserToggle
    \/ \E tg \in toggles : ToggleResume(tg)
    \/ \E k \in 1..MaxSessions, error \in Errors : RecognitionError(k, error)
    \/ \E k \in 1..MaxSessions : RecognitionEnds(k)
    \/ \E k \in 1..MaxSessions : RecognitionClosed(k)
    \/ \E tm \in restartTimers : RestartTimer(tm)
    \/ \E k \in 1..MaxSessions : KeepAliveTick(k)
    \/ \E k \in 1..MaxSessions : GetUserMediaResolved(k)
    \/ \E k \in 1..MaxSessions : GetUserMediaRejected(k)
    \/ \E k \in 1..MaxSessions : StopTimer(k)
    \/ \E k \in 1..MaxSessions : RecorderStopped(k)
    \/ \E k \in 1..MaxSessions, outcome \in Outcomes : TranscriptionFailed(k, outcome)

Spec == Init /\ [][Next]_vars

\* the listening machine with results, matching and dispatch; the
\* always-listening mode is the one loaded from the settings
NextDispatch ==
    \/ Render
    \/ UserStart
    \/ UserStop
    \/ \E k \in 1..MaxSessions, t \in MachineTranscripts, isFinal \in BOOLEAN,
          confidence \in Confidences :
             hist.results < MaxResults /\ RecognitionResult(k, t, isFinal, confidence)
    \/ \E k \in 1..MaxSessions : RecognitionEnds(k)
    \/ \E k \in 1..MaxSessions : RecognitionClosed(k)
    \/ \E tm \in restartTimers : RestartTimer(tm)
    \/ \E k \in 1..MaxSessions : KeepAliveTick(k)
    \/ \E k \in 1..MaxSessions : GetUserMediaResolved(k)
    \/ \E k \in 1..MaxSessions : GetUserMediaRejected(k)
    \/ \E k \in 1..MaxSessions : StopTimer(k)
    \/ \E k \in 1..MaxSessions : RecorderStopped(k)
    \/ \E k \in 1..MaxSessions, t \in MachineTranscripts : TranscriptionSucceeded(k, t)
    \/ \E k \in 1..MaxSessions, outcome \in Outcomes : TranscriptionFailed(k, outcome)
    \/ \E f \in frames : AnimationFrame(f)
    \/ \E sv \in saves : SaveDone(sv)

DispatchSpec == Init /\ [][NextDispatch]_vars

\* result[0].confidence as the recogniser reports it: absent (0), low, high
HeardConfidences == { 0, 20, 85 }

\* what is heard: a phrase of the catalog and one that is not in it
HeardTranscripts == { PauseWord, NoiseWord }

\* a recognition session that stays open while results arrive for it, with
\* the always-listening mode off and no command used before
HeardInit ==
    /\ Init
    /\ platform = "recognition"
    /\ ~st.alwaysListening
    /\ st.usageCount = 0

NextHeard ==
    \/ Render
    \/ UserStart
    \/ \E k \in 1..MaxSessions, t \in HeardTranscripts, isFinal \in BOOLEAN,
          confidence \in HeardConfidences :
             hist.results < MaxHeard /\ RecognitionResult(k, t, isFinal, confidence)
    \/ \E f \in frames : AnimationFrame(f)
    \/ \E sv \in saves : SaveDone(sv)

HeardSpec == HeardInit /\ [][NextHeard]_vars

\* what the event loop is bound to run: renders, continuations, timers, the
\* events that follow a stop or an error, and the settling of requests; the
\* user and the recognition service owe nothing
Fairness ==
    /\ WF_vars(Render)
    /\ WF_vars(\E tg \in toggles : ToggleResume(tg))
    /\ WF_vars(\E k \in 1..MaxSessions : RecognitionClosed(k))
    /\ WF_vars(\E tm \in restartTimers : RestartTimer(tm))
    /\ WF_vars(\E k \in 1..MaxSessions : KeepAliveTick(k))
    /\ WF_vars(\E k \in 1..MaxSessions :
                  GetUserMediaResolved(k) \/ GetUserMediaRejected(k))
    /\ WF_vars(\E k \in 1..MaxSessions : StopTimer(k))
    /\ WF_vars(\E k \in 1..MaxSessions : RecorderStopped(k))
    /\ WF_vars(\E k \in 1..MaxSessions, outcome \in Outcomes :
                  TranscriptionFailed(k, outcome))

FairSpec == Spec /\ Fairness

\* the recogniser of session k stops capturing and fires neither 'end' nor
\* 'error': the case the keep-alive interval is there for (part_001:594-610)
RecognitionSilent(k) ==
    /\ Rendered
    /\ k \in Sessions
    /\ sess[k].kind = "recognition"
    /\ sess[k].status = "active"
    /\ sess' = [ sess EXCEPT ![k].status = "inactive", ![k].cause = "silent" ]
    /\ UNCHANGED << matcherVars, playerVars, st, view, platform, recognition,
                    mediaRecorder, keepAliveInterval, intervals, restartTimers,
                    toggles, frames, saves, storedSettings, hist, appVars >>

\* the listening machine with sessions that may go silent
NextKeepAlive ==
    \/ Next
    \/ \E k \in 1..MaxSessions : RecognitionSilent(k)

KeepAliveSpec == Init /\ [][NextKeepAlive]_vars /\ Fairness

----------------------------------------------------------------------------
(* Properties of the listening machine                                     *)

\* nothing is pending: every callback, timer and request has run
Quiescent ==
    /\ Rendered
    /\ restartTimers = {}
    /\ toggles = {}
    /\ frames = {}
    /\ saves = {}
    /\ \A k \in Sessions :
          /\ sess[k].status \notin { "stopping", "errored", "acquiring",
                                     "stopped", "transcribing" }
          /\ ~sess[k].stopTimer

\* C1: once stopListening() has run and everything that was pending has run,
\* with no explicit start()/toggle call since, isListening is false, no
\* capture session is open and no keep-alive timer is armed.  Stated for the
\* runs in which no two sessions were ever open together.
C1_StopLeavesIdle ==
    (hist.idle /\ Quiescent /\ ~hist.overlap) =>
        /\ ~st.isListening
        /\ \A k \in Sessions : ~IsOpen(sess[k])
        /\ intervals = {}

\* C2: in every reachable state at most one capture session is capturing and
\* at most one keep-alive timer is armed.
C2_AtMostOneSession ==
    /\ Cardinality({ k \in Sessions : sess[k].status \in CapturingStatuses }) <= 1
    /\ Cardinality(intervals) <= 1

\* C3: no command is executed for a recognition result or a transcription
\* response delivered after stop() and before the next start.
C3_NoLateDispatch == ~hist.late

\* C4: with alwaysListening true, once the latest session has ended by a
\* graceful 'end' event, a new session is eventually opened (unless the user
\* stops or switches the mode off).
C4_GracefulEndRestarts ==
    \A k \in 1..(MaxSessions - 1) :
        ( /\ Len(sess) = k
          /\ sess[k].status = "ended"
          /\ sess[k].cause = "end"
          /\ sess[k].c.alwaysListening
          /\ st.alwaysListening )
        ~> (Len(sess) > k \/ ~st.alwaysListening \/ hist.idle)

\* C5: with alwaysListening false, once the latest session has ended (by its
\* 'end' event, or by the recorder's timed stop and the end of the
\* transcription), isListening eventually becomes false.
C5_EndReturnsToIdle ==
    \A k \in 1..(MaxSessions - 1) :
        ( /\ Len(sess) = k
          /\ sess[k].status = "ended"
          /\ sess[k].cause \in { "end", "timer" }
          /\ ~sess[k].c.alwaysListening
          /\ ~st.alwaysListening )
        ~> (~st.isListening \/ Len(sess) > k \/ st.alwaysListening)

\* C6: with alwaysListening true, once the restart timer of a 'no-speech'
\* error has fired, exactly one session has been opened since the error
\* (no user call in between).
C6_OneRestartPerNoSpeech ==
    (hist.err.fired /\ ~hist.err.user /\ hist.err.at < MaxSessions) =>
        Len(sess) = hist.err.at + 1

\* C7: when a matched command with a built-in intent has been dispatched, the
\* player reflects the intent's action: after PauseVideoIntent the player is
\* paused.
C7_ListenerAppliesIntent ==
    lastEvent.intent = "PauseVideoIntent" => ~videoPlayer.playing

\* C8: once every dispatch has completed, usageCount in the provider state and
\* in the persisted settings is its initial value plus the sum of the
\* weights of the commands dispatched.
C8_UsageCountIsSum ==
    (frames = {} /\ saves = {} /\ Rendered) =>
        /\ st.usageCount = hist.usage0 + hist.weight
        /\ storedSettings.usageCount = hist.usage0 + hist.weight

----------------------------------------------------------------------------
(* The matcher alone: findMatchingCommand over catalogs and transcripts   *)

SeqsUpTo(S, n) == UNION { [1..k -> S] : k \in 0..n }

PauseNow == PauseWord \o << " ", "n", "o", "w" >>
PleasePauseNow == << "p", "l", "e", "a", "s", "e", " " >> \o PauseNow

\* entries of voiceIntents.json: { intent, utterances: { lang: [phrase] } }.
\* One has an 'en' list only, written with a capital and a leading space; one
\* has a list for both languages; one has an empty 'zh' list beside its 'en'
\* list; one has a list for neither language.
IntentPool ==
    { [ intent |-> "PlayVideoIntent",
        utterances |-> [ en |-> << << " ", "A" >> >> ] ],
      [ intent |-> "PauseVideoIntent",
        utterances |-> [ zh |-> << << "b" >>, << "a", "b" >> >>,
                         en |-> << << "a" >> >> ] ],
      [ intent |-> "StopVideoIntent",
        utterances |-> [ zh |-> << >>, en |-> << << "b" >> >> ] ],
      [ intent |-> "MuteIntent",
        utterances |-> [ ja |-> << << "a" >> >> ] ] }

\* entries of voiceCommands.json: { utterances, action, usage_count }
LegacyCommand(action, usage_count, utterances) ==
    [ intent |-> Undefined, action |-> action, slot |-> "null",
      usage_count |-> usage_count, utterances |-> utterances ]

CommandPool ==
    { LegacyCommand("play", 1, [ en |-> << << "a", "b" >>, << "B", " " >> >> ]),
      LegacyCommand("next", 2, [ en |-> << << "b", "a" >>, << "a" >> >>,
                                 zh |-> << << "b" >> >> ]),
      LegacyCommand("pause", 1, [ en |-> << PauseWord >> ]),
      LegacyCommand("mute", 1, [ en |-> << PauseNow >> ]) }

Languages == { "en", "zh" }

\* what the recogniser may hand over: every string over two letters up to
\* MaxTextLen, and strings with capitals, spaces around and inside, blanks only
Transcripts ==
    SeqsUpTo({ "a", "b" }, MaxTextLen) \cup
    { << " " >>, << " ", "A", " " >>, << "A", "b" >>, << "a", " ", "b" >>,
      << "B", " ", "a" >>, << " ", "B", "a", "b" >>, PauseWord, PauseNow,
      PleasePauseNow }

MatchInit ==
    /\ voiceIntents \in SeqsUpTo(IntentPool, MaxIntents)
    /\ voiceCommands \in SeqsUpTo(CommandPool, MaxCommands)
    /\ language \in Languages
    /\ text = << >>
    /\ matched = Null
    /\ platform = "recognition"
    /\ InitMachine(FALSE, 0)
    /\ InitApp
    /\ InitPlayer

\* the call findMatchingCommand(t, language) of a run and the value it resolves
\* to; the function keeps nothing between calls, so a run makes one
FindMatching(t) ==
    /\ text = << >>
    /\ matched = Null
    /\ text' = t
    /\ matched' = findMatchingCommand(t, language)
    /\ UNCHANGED << voiceIntents, voiceCommands, language, providerVars,
                    playerVars, hist, appVars >>

MatchNext == \E t \in Transcripts : FindMatching(t)

MatchSpec == MatchInit /\ [][MatchNext]_vars

----------------------------------------------------------------------------
(* Properties of the matcher                                               *)

\* the transcript as the matcher compares it: lowercased, then trimmed
Heard == trim(toLowerCase(text))

\* u occurs in s as a run of consecutive characters
IsSubstring(u, s) ==
    \E a \in 0..Len(s) : \E b \in a..Len(s) : SubSeq(s, a + 1, b) = u

\* the list an entry offers for the language: its own list when it has one
\* (even an empty one), else its 'en' list, else nothing
ListFor(entry) ==
    IF language \in DOMAIN entry.utterances THEN entry.utterances[language]
    ELSE IF "en" \in DOMAIN entry.utterances THEN entry.utterances["en"]
    ELSE << >>

\* intent i has an utterance that, lowercased and trimmed as the matcher reads
\* it, equals the transcript or occurs in it
IntentHits(i) ==
    \E k \in 1..Len(ListFor(voiceIntents[i])) :
        IsSubstring(trim(toLowerCase(ListFor(voiceIntents[i])[k])), Heard)

NoIntentHits == \A i \in 1..Len(voiceIntents) : ~IntentHits(i)

\* the command the intent pass builds for intent i
IntentResult(i) ==
    [ intent |-> voiceIntents[i].intent, action |-> Undefined, slot |-> "null",
      usage_count |-> 1, utterances |-> voiceIntents[i].utterances ]

\* C9: an empty transcript yields null; otherwise, when some intent has an
\* utterance (in its list for the language, or in its 'en' list when it has no
\* list for the language) that equals or occurs in the lowercased, trimmed
\* transcript, the result is the first such intent in catalog order, whatever
\* the legacy commands are; and when no intent has one (an intent with neither
\* list has none) the result is not an intent.  Utterances are read as the
\* matcher reads them: lowercased and trimmed.
C9_FirstIntentInOrder ==
    /\ text = << >> => matched = Null
    /\ text # << >> =>
          /\ \A i \in 1..Len(voiceIntents) :
                (IntentHits(i) /\ \A j \in 1..(i - 1) : ~IntentHits(j))
                    => matched = IntentResult(i)
          /\ NoIntentHits =>
                (matched = Null \/ \E c \in 1..Len(voiceCommands) :
                                       matched = voiceCommands[c])

\* with language 'zh', an intent with a list for neither language is passed
\* over, the next one has only an 'en' list, and its utterance " A" matches the
\* transcript " A " although a legacy command is in the catalog
C9_Witness ==
    /\ language = "zh"
    /\ text = << " ", "A", " " >>
    /\ Len(voiceIntents) = 2
    /\ voiceIntents[1].intent = "MuteIntent"
    /\ voiceIntents[2].intent = "PlayVideoIntent"
    /\ voiceCommands # << >>
    /\ matched = IntentResult(2)

\* the utterances of the legacy catalog that, lowercased, equal the transcript
\* or occur in it, each named by its command and its place in the list
Contained ==
    UNION { { << c, u >> : u \in { v \in 1..Len(ListFor(voiceCommands[c])) :
                  IsSubstring(toLowerCase(ListFor(voiceCommands[c])[v]), Heard) } }
            : c \in 1..Len(voiceCommands) }

UtteranceLen(p) == Len(ListFor(voiceCommands[p[1]])[p[2]])

Earlier(p, q) == p[1] < q[1] \/ (p[1] = q[1] /\ p[2] < q[2])

\* p has the greatest score, and is the first in catalog order of those that have
IsBest(p) ==
    /\ p \in Contained
    /\ \A q \in Contained :
          \/ UtteranceLen(q) < UtteranceLen(p)
          \/ UtteranceLen(q) = UtteranceLen(p) /\ ~Earlier(q, p)

\* C10: when no intent matches, the result is the legacy command holding the
\* contained utterance of greatest score len(utterance)/len(transcript), the
\* first in catalog order on ties, if and only if that score is above one half
\* (2 * len(utterance) > len(transcript)), and null otherwise; for the
\* 16-character transcript "please pause now" the utterance "pause" alone is
\* rejected and "pause now" is accepted.  The transcript is the lowercased,
\* trimmed one and utterances are read lowercased.
C10_BestLegacyAboveHalf ==
    (text # << >> /\ NoIntentHits) =>
        /\ \A p \in Contained :
              (IsBest(p) /\ 2 * UtteranceLen(p) > Len(Heard))
                  => matched = voiceCommands[p[1]]
        /\ (\A p \in Contained : 2 * UtteranceLen(p) <= Len(Heard))
              => matched = Null
        /\ (text = PleasePauseNow /\ Len(Heard) = 16) =>
              /\ (\A p \in Contained : UtteranceLen(p) = 5) => matched = Null
              /\ (\E p \in Contained : UtteranceLen(p) = 9) => matched # Null

\* "please pause now" against a catalog holding "pause" (5/16) and then
\* "pause now" (9/16): the second command is returned
C10_Witness ==
    /\ text = PleasePauseNow
    /\ voiceIntents = << >>
    /\ Len(voiceCommands) = 2
    /\ voiceCommands[1].action = "pause"
    /\ voiceCommands[2].action = "mute"
    /\ Contained = { << 1, 1 >>, << 2, 1 >> }
    /\ matched = voiceCommands[2]

\* the transcript equals an utterance an entry offers for the language, each
\* read as its pass reads it
ExactInIntent(i) ==
    \E k \in 1..Len(ListFor(voiceIntents[i])) :
        trim(toLowerCase(ListFor(voiceIntents[i])[k])) = Heard

ExactInCommand(c) ==
    \E u \in 1..Len(ListFor(voiceCommands[c])) :
        toLowerCase(ListFor(voiceCommands[c])[u]) = Heard

\* C11: whenever the normalized transcript equals an utterance of a catalog
\* entry for the language, the result is an entry found by the intent pass or
\* a legacy command that holds an utterance equal to the transcript, never
\* null and never a legacy command that only contains part of it.
C11_ExactMatchWins ==
    ( /\ text # << >>
      /\ \/ \E i \in 1..Len(voiceIntents) : ExactInIntent(i)
         \/ \E c \in 1..Len(voiceCommands) : ExactInCommand(c) )
    => \/ \E i \in 1..Len(voiceIntents) : matched = IntentResult(i)
       \/ \E c \in 1..Len(voiceCommands) :
             matched = voiceCommands[c] /\ ExactInCommand(c)

\* "pause now" against a catalog holding "pause" (contained, 5/9) and then
\* "pause now" (equal): the second command is returned
C11_Witness ==
    /\ text = PauseNow
    /\ voiceIntents = << >>
    /\ Len(voiceCommands) = 2
    /\ voiceCommands[1].action = "pause"
    /\ voiceCommands[2].action = "mute"
    /\ ~ExactInCommand(1)
    /\ << 1, 1 >> \in Contained
    /\ matched = voiceCommands[2]

----------------------------------------------------------------------------
(* The player screen alone: the three ways an action reaches the player    *)
(* (player.tsx:246-355, 768-863, 895-975) and the status poll              *)

\* setVolume(videoPlayer.volume || 1.0)  (player.tsx:376)
VolumeSnapshot(v) == IF v = 0 THEN 100 ELSE v

\* updateStatus, every 100 ms (player.tsx:370-381), as far as the handlers
\* read what it sets
updateStatus(p) == [ p EXCEPT !.volume = VolumeSnapshot(p.videoPlayer.volume) ]

\* toggleFullscreen (player.tsx:421-425)
toggleFullscreen(p) == [ p EXCEPT !.isFullscreen = ~p.isFullscreen ]

\* executeCustomAction (player.tsx:895-975)
executeCustomAction(p, action) ==
    CASE action = "play" -> [ p EXCEPT !.videoPlayer.playing = TRUE ]
      [] action = "pause" -> [ p EXCEPT !.videoPlayer.playing = FALSE ]
      [] action = "stop" -> [ p EXCEPT !.videoPlayer.playing = FALSE ]
      [] action = "forward_10" -> skipForward(p, 10)
      [] action = "forward_20" -> skipForward(p, 20)
      [] action = "forward_30" -> skipForward(p, 30)
      [] action = "rewind_10" -> skipBackward(p, 10)
      [] action = "rewind_20" -> skipBackward(p, 20)
      [] action = "rewind_30" -> skipBackward(p, 30)
      [] action = "volume_max" -> setVideoVolume(p, 100)
      [] action = "mute" -> [ p EXCEPT !.videoPlayer.muted = TRUE ]
      [] action = "unmute" -> [ p EXCEPT !.videoPlayer.muted = FALSE ]
      [] action = "volume_up" -> setVideoVolume(p, p.volume + 20)
      [] action = "volume_down" -> setVideoVolume(p, p.volume - 20)
      [] action = "fullscreen" -> [ p EXCEPT !.isFullscreen = TRUE ]
      [] action = "exit_fullscreen" -> [ p EXCEPT !.isFullscreen = FALSE ]
      [] action = "speed_0_5" -> setVideoSpeed(p, 50)
      [] action = "speed_normal" -> setVideoSpeed(p, 100)
      [] action = "speed_1_25" -> setVideoSpeed(p, 125)
      [] action = "speed_1_5" -> setVideoSpeed(p, 150)
      [] action = "speed_2_0" -> setVideoSpeed(p, 200)
      [] OTHER -> p

\* the phrases executeVoiceCommand looks for, in the order of its else-if
\* chain (player.tsx:770-850)
TextChain ==
    << "play", "pause", "stop", "forward 30", "forward 20", "forward 10",
       "backward 30", "backward 20", "backward 10", "mute", "unmute",
       "volume up", "volume down", "max volume", "0.5", "1.25", "1.5", "2",
       "normal", "fullscreen", "exit fullscreen" >>

\* command.includes(phrase) for a command that is the phrase `said`: a phrase
\* holds itself and the phrases written inside it
TextContains(said, phrase) ==
    \/ said = phrase
    \/ << said, phrase >> \in { << "unmute", "mute" >>,
                                << "exit fullscreen", "fullscreen" >>,
                                << "forward 20", "2" >>, << "backward 20", "2" >>,
                                << "1.25", "2" >> }

\* the branch of the chain taken for phrase number i
TextBranch(p, i) ==
    LET phrase == TextChain[i] IN
    CASE phrase = "play" -> [ p EXCEPT !.videoPlayer.playing = TRUE ]
      [] phrase = "pause" -> [ p EXCEPT !.videoPlayer.playing = FALSE ]
      [] phrase = "stop" -> [ p EXCEPT !.videoPlayer.playing = FALSE ]
      [] phrase = "forward 30" -> skipForward(p, 30)
      [] phrase = "forward 20" -> skipForward(p, 20)
      [] phrase = "forward 10" -> skipForward(p, 10)
      [] phrase = "backward 30" -> skipBackward(p, 30)
      [] phrase = "backward 20" -> skipBackward(p, 20)
      [] phrase = "backward 10" -> skipBackward(p, 10)
      [] phrase = "mute" -> [ p EXCEPT !.videoPlayer.muted = TRUE ]
      [] phrase = "unmute" -> [ p EXCEPT !.videoPlayer.muted = FALSE ]
      [] phrase = "volume up" -> setVideoVolume(p, p.volume + 20)
      [] phrase = "volume down" -> setVideoVolume(p, p.volume - 20)
      [] phrase = "max volume" -> setVideoVolume(p, 100)
      [] phrase = "0.5" -> setVideoSpeed(p, 50)
      [] phrase = "1.25" -> setVideoSpeed(p, 125)
      [] phrase = "1.5" -> setVideoSpeed(p, 150)
      [] phrase = "2" -> setVideoSpeed(p, 200)
      [] phrase = "normal" -> setVideoSpeed(p, 100)
      [] phrase = "fullscreen" -> toggleFullscreen(p)
      [] phrase = "exit fullscreen" ->
             IF p.isFullscreen THEN toggleFullscreen(p) ELSE p

\* the first phrase of the chain the command holds, 0 when it holds none
RECURSIVE FirstPhrase(_, _)
FirstPhrase(said, i) ==
    IF i > Len(TextChain) THEN 0
    ELSE IF TextContains(said, TextChain[i]) THEN i
    ELSE FirstPhrase(said, i + 1)

\* customCommands.forEach(cmd => cmd.triggers.forEach(...)) for the commands
\* from number i on whose trigger the text holds (player.tsx:855-862); every
\* call reads the volume of the render, videoVolume
RECURSIVE CustomLoop(_, _, _, _, _)
CustomLoop(p, commands, triggered, i, videoVolume) ==
    IF i > Len(commands) THEN p
    ELSE CustomLoop(
           IF i \in triggered
           THEN executeCustomAction([ p EXCEPT !.volume = videoVolume ],
                                    commands[i].action)
           ELSE p,
           commands, triggered, i + 1, videoVolume)

\* executeVoiceCommand (player.tsx:768-863) for a command that is the phrase
\* `said` and holds the triggers of the custom commands in `triggered`
executeVoiceCommand(p, said, commands, triggered) ==
    LET i == FirstPhrase(said, 1)
        p1 == IF i = 0 THEN p ELSE TextBranch(p, i)
    IN  CustomLoop(p1, commands, triggered, 1, p.volume)

\* the action keys the custom-command form offers (player.tsx:1548-1679)
PickerKeys ==
    << "play", "pause", "stop", "next", "previous", "restart",
       "forward_10", "forward_20", "forward_30",
       "rewind_10", "rewind_20", "rewind_30",
       "volume_max", "mute", "unmute", "volume_up", "volume_down",
       "fullscreen", "exit_fullscreen",
       "speed_0_5", "speed_normal", "speed_1_25", "speed_1_5", "speed_2_0" >>

\* const newCommand = { id, name, triggers: [name.toLowerCase()], action }
\* (player.tsx:656-661)
CustomCommand(id, name, action) ==
    [ id |-> id, name |-> name, triggers |-> << toLowerCase(name) >>,
      action |-> action ]

\* two-letter names none of which is written inside another or inside a
\* phrase of TextChain
NameLetters == << "q", "j", "z", "x", "h" >>
PickerName(i) ==
    << NameLetters[((i - 1) \div Len(NameLetters)) + 1],
       NameLetters[((i - 1) % Len(NameLetters)) + 1] >>

\* the keys of the custom commands the user has saved before the run: one of
\* each kind of action, and three the form offers that have no case
SavedKeys ==
    << "pause", "restart", "next", "forward_10", "rewind_10", "rewind_30",
       "volume_max", "volume_up", "volume_down", "mute", "fullscreen",
       "speed_2_0" >>

\* the list after the user has saved one command for every key of SavedKeys
SavedCommands ==
    [ i \in 1..Len(SavedKeys) |-> CustomCommand(i, PickerName(i), SavedKeys[i]) ]

\* the intents the events of a run carry, of the cases of the switch
EventIntents ==
    { "PauseVideoIntent", "StopVideoIntent",
      "Forward10Intent", "Rewind10Intent", "Rewind30Intent",
      "VolumeMaxIntent", "VolumeUpIntent", "VolumeDownIntent",
      "UnmuteIntent", "ExitFullscreenIntent" }

\* the phrases spoken in a run, of the phrases of TextChain
SpokenPhrases ==
    { "play", "stop", "forward 10", "backward 10", "backward 30",
      "unmute", "volume up", "volume down", "max volume", "2",
      "exit fullscreen" }

\* names and keys that are no case of either switch
UnknownIntents == { "OpenSettingsIntent" }
UnknownKeys == { "open_settings" }

\* a spoken text that holds no phrase of TextChain
NoPhrase == "hello"

\* the player when the screen opens on a video: a loaded video in the middle,
\* a source whose duration is not known yet, or one that plays on without the
\* player reporting a duration, as a live stream does (player.tsx:138-139)
PlayerInit ==
    /\ voiceIntents = MachineIntents
    /\ voiceCommands = MachineCommands
    /\ language = "en"
    /\ text = << >>
    /\ matched = Null
    /\ platform = "recognition"
    /\ InitMachine(FALSE, 0)
    /\ InitApp
    /\ \E t \in { << 5, 20 >>, << 0, 0 >>, << 5, 0 >> } :
          videoPlayer = [ playing |-> TRUE, currentTime |-> t[1], duration |-> t[2],
                          volume |-> 90, muted |-> FALSE, playbackRate |-> 100 ]
    /\ isFullscreen = FALSE
    /\ volume = VolumeSnapshot(90)
    /\ lastEvent = NoEvent
    /\ customCommands = SavedCommands
    /\ commandForm = EmptyForm
    /\ now = Len(SavedKeys)
    /\ op = NoOp

\* a handler has run and left the screen p
PlayerDid(p, path, key) ==
    /\ videoPlayer' = p.videoPlayer
    /\ isFullscreen' = p.isFullscreen
    /\ volume' = p.volume
    /\ op' = [ path |-> path, key |-> key, volume |-> videoPlayer.volume,
               currentTime |-> videoPlayer.currentTime ]
    /\ UNCHANGED << matcherVars, providerVars, lastEvent, customCommands,
                    commandForm, now, hist, appVars >>

\* a 'voiceCommand' event whose detail carries `command` reaches the listener
VoiceCommandEvent(command) ==
    PlayerDid(handleVoiceCommand(Screen, [ command |-> command ]), "intent", command)

\* the screen's own recording is transcribed to a text holding `said` and no
\* trigger of a custom command (player.tsx:733-766)
TextCommand(said) ==
    PlayerDid(executeVoiceCommand(Screen, said, customCommands, {}), "text", said)

\* ... to a text that is the trigger of custom command i
CustomSaid(i) ==
    PlayerDid(executeVoiceCommand(Screen, NoPhrase, customCommands, { i }),
              "custom", customCommands[i].action)

\* the 100 ms status poll (player.tsx:383)
PollStatus ==
    /\ volume' = updateStatus(Screen).volume
    /\ UNCHANGED << matcherVars, providerVars, videoPlayer, isFullscreen,
                    lastEvent, screenVars, hist, appVars >>

PlayerNext ==
    \/ \E command \in EventIntents \cup UnknownIntents : VoiceCommandEvent(command)
    \/ \E said \in SpokenPhrases : TextCommand(said)
    \/ TextCommand(NoPhrase)
    \/ \E i \in DOMAIN customCommands : CustomSaid(i)
    \/ PollStatus

PlayerSpec == PlayerInit /\ [][PlayerNext]_vars

VolumeUpKeys == { "VolumeUpIntent", "volume up", "volume_up" }
VolumeDownKeys == { "VolumeDownIntent", "volume down", "volume_down" }
VolumeMaxKeys == { "VolumeMaxIntent", "max volume", "volume_max" }

\* C12: after a volume_up, volume_down or volume_max action, by whichever of
\* the three paths, the volume written to the player is within [0,1];
\* volume_up has written min(1, v + 0.2) and volume_down max(0, v - 0.2),
\* where v is the volume the player had before the action.
C12_VolumeStepsFromCurrent ==
    /\ op.key \in VolumeUpKeys \cup VolumeDownKeys \cup VolumeMaxKeys
          => videoPlayer.volume \in 0..100
    /\ op.key \in VolumeUpKeys => videoPlayer.volume = Min(100, op.volume + 20)
    /\ op.key \in VolumeDownKeys => videoPlayer.volume = Max(0, op.volume - 20)

ForwardKeys ==
    { "Forward10Intent", "Forward20Intent", "Forward30Intent",
      "forward 10", "forward 20", "forward 30",
      "forward_10", "forward_20", "forward_30" }
Rewind30Keys == { "Rewind30Intent", "backward 30", "rewind_30" }
RewindKeys ==
    { "Rewind10Intent", "Rewind20Intent", "backward 10", "backward 20",
      "rewind_10", "rewind_20" } \cup Rewind30Keys

----------------------------------------------------------------------------
(* The custom-command form of the player screen (player.tsx:123-130,       *)
(* 645-700, 1410-1740)                                                     *)

MaxSaves == 3   \* custom commands added in a run

\* a name compared as it was typed
NameExistsAsTyped(commands, name) ==
    \E i \in 1..Len(commands) : commands[i].name = name

\* customCommands.some(cmd => cmd.name.toLowerCase() === commandName.toLowerCase())
\* (player.tsx:652)
NameExists(commands, name) ==
    \E i \in 1..Len(commands) : toLowerCase(commands[i].name) = toLowerCase(name)

\* prev.map(cmd => cmd.id === editingCommand.id ? newCommand : cmd)
\* (player.tsx:664-666)
ReplaceById(commands, id, newCommand) ==
    [ i \in 1..Len(commands) |->
          IF commands[i].id = id THEN newCommand ELSE commands[i] ]

\* prev.filter(cmd => cmd.id !== commandId)  (player.tsx:694)
RECURSIVE FilterOutId(_, _)
FilterOutId(commands, commandId) ==
    IF commands = << >> THEN << >>
    ELSE IF Head(commands).id = commandId
         THEN FilterOutId(Tail(commands), commandId)
         ELSE << Head(commands) >> \o FilterOutId(Tail(commands), commandId)

\* what the user types as a name, and the keys picked in the form
TypedNames ==
    { << >>, << " " >>, << "a" >>, << "p", "a" >>, << "P", "a" >> }
FormKeys == { "pause", "restart" }

\* the screen with no custom command saved; the player is left alone
FormInit ==
    /\ voiceIntents = MachineIntents
    /\ voiceCommands = MachineCommands
    /\ language = "en"
    /\ text = << >>
    /\ matched = Null
    /\ platform = "recognition"
    /\ InitMachine(FALSE, 0)
    /\ InitApp
    /\ InitPlayer

\* what a form step leaves alone
FormFrame ==
    UNCHANGED << matcherVars, providerVars, videoPlayer, isFullscreen, volume,
                 lastEvent, hist, appVars >>

\* the Alert a form step has shown
FormAlert(path, message) ==
    [ path |-> path, key |-> message, volume |-> 0, currentTime |-> 0 ]

\* the header of the commands section is pressed (player.tsx:1414)
OpenCommandModal ==
    /\ ~commandForm.showCustomCommandModal
    /\ commandForm' = [ commandForm EXCEPT !.showCustomCommandModal = TRUE ]
    /\ UNCHANGED << customCommands, now, op >>
    /\ FormFrame

\* the modal is closed without saving (player.tsx:1498, 1504)
CloseCommandModal ==
    /\ commandForm.showCustomCommandModal
    /\ commandForm' = [ commandForm EXCEPT !.showCustomCommandModal = FALSE ]
    /\ UNCHANGED << customCommands, now, op >>
    /\ FormFrame

\* onChangeText={setCommandName}  (player.tsx:1523)
TypeCommandName(name) ==
    /\ commandForm.showCustomCommandModal
    /\ commandForm' = [ commandForm EXCEPT !.commandName = name ]
    /\ UNCHANGED << customCommands, now, op >>
    /\ FormFrame

\* setCommandAction(action.key)  (player.tsx:1562)
PickCommandAction(key) ==
    /\ commandForm.showCustomCommandModal
    /\ commandForm' = [ commandForm EXCEPT !.commandAction = key ]
    /\ UNCHANGED << customCommands, now, op >>
    /\ FormFrame

\* a test of the two fields that takes the name as typed
FieldsMissingAsTyped(commandName, commandAction) ==
    commandName = << >> \/ commandAction = ""

\* !commandName.trim() || !commandAction.trim()  (player.tsx:646); the action
\* is empty or a key of the picker
FieldsMissing(commandName, commandAction) ==
    trim(commandName) = << >> \/ commandAction = ""

\* saveCustomCommand (player.tsx:645-679); the clock moves on with every
\* command added
saveCustomCommand ==
    /\ commandForm.showCustomCommandModal
    /\ LET commandName == commandForm.commandName
           commandAction == commandForm.commandAction
           editingCommand == commandForm.editingCommand
           newCommand ==
               CustomCommand(IF editingCommand # Null THEN editingCommand.id ELSE now,
                             commandName, commandAction)
       IN  IF FieldsMissing(commandName, commandAction)
           THEN /\ op' = FormAlert("saveCustomCommand", "fill_all_fields")
                /\ UNCHANGED << customCommands, commandForm, now >>
           ELSE IF editingCommand = Null /\ NameExists(customCommands, commandName)
           THEN /\ op' = FormAlert("saveCustomCommand", "command_name_exists")
                /\ UNCHANGED << customCommands, commandForm, now >>
           ELSE IF editingCommand # Null
           THEN /\ customCommands' =
                       ReplaceById(customCommands, editingCommand.id, newCommand)
                /\ op' = FormAlert("saveCustomCommand", "command_updated_successfully")
                /\ commandForm' = EmptyForm
                /\ UNCHANGED now
           ELSE /\ now < MaxSaves
                /\ customCommands' = Append(customCommands, newCommand)
                /\ op' = FormAlert("saveCustomCommand", "command_added_successfully")
                /\ commandForm' = EmptyForm
                /\ now' = now + 1
    /\ FormFrame

\* deleteCustomCommand, confirmed in its Alert (player.tsx:681-700)
deleteCustomCommand(commandId) ==
    /\ commandForm.showCustomCommandModal
    /\ \E i \in 1..Len(customCommands) : customCommands[i].id = commandId
    /\ customCommands' = FilterOutId(customCommands, commandId)
    /\ op' = FormAlert("deleteCustomCommand", "command_deleted_successfully")
    /\ UNCHANGED << commandForm, now >>
    /\ FormFrame

FormNext ==
    \/ OpenCommandModal
    \/ CloseCommandModal
    \/ \E name \in TypedNames : TypeCommandName(name)
    \/ \E key \in FormKeys : PickCommandAction(key)
    \/ saveCustomCommand
    \/ \E commandId \in 0..(MaxSaves - 1) : deleteCustomCommand(commandId)

FormSpec == FormInit /\ [][FormNext]_vars

\* C14: after any sequence of custom-command saves and deletes no two custom
\* commands have names that are equal ignoring case; a save whose name equals
\* an existing name ignoring case has added nothing.
C14_NamesUniqueIgnoringCase ==
    \A i, j \in 1..Len(customCommands) :
        toLowerCase(customCommands[i].name) = toLowerCase(customCommands[j].name)
           => i = j

\* "Pa" was typed while "pa" was saved, and the save was refused
C14_Witness ==
    /\ op.path = "saveCustomCommand"
    /\ op.key = "command_name_exists"
    /\ commandForm.commandName = << "P", "a" >>
    /\ Len(customCommands) = 2
    /\ \E i \in 1..Len(customCommands) : customCommands[i].name = << "p", "a" >>

\* C15: in every state of the player, an intent name that is no case of the
\* listener's switch and an action key that is no case of executeCustomAction
\* leave playing, position, volume, muted, playback rate and fullscreen as
\* they are (the listener's body is inside try/catch and the switch defaults
\* only log, so nothing is thrown).
C15_UnknownChangesNothing ==
    /\ \A command \in UnknownIntents :
          handleVoiceCommand(Screen, [ command |-> command ]) = Screen
    /\ \A action \in UnknownKeys : executeCustomAction(Screen, action) = Screen
    /\ (op.path = "intent" /\ op.key \in UnknownIntents)
          => /\ videoPlayer.volume = op.volume
             /\ videoPlayer.currentTime = op.currentTime

\* an event with an unknown intent name has reached the listener of a paused,
\* muted, fullscreen player
C15_Witness ==
    /\ op.path = "intent"
    /\ op.key \in UnknownIntents
    /\ ~videoPlayer.playing
    /\ videoPlayer.muted
    /\ isFullscreen
    /\ videoPlayer.volume = 70
    /\ videoPlayer.currentTime = 15

----------------------------------------------------------------------------
(* Properties of processCommand and of the results of a session            *)

\* C16: a frame callback of processCommand whose transcript matches a command
\* executes it, whatever the confidence the call was given.
C16_ConfidenceNeverGates ==
    hist.frame.matches => hist.frame.executed

\* the last frame callback run was for a final transcript of confidence 0.2
\* that matched, and its command is on its way to the player
C16_Witness ==
    /\ hist.frame.from.final
    /\ hist.frame.confidence = 20
    /\ hist.frame.matches
    /\ hist.frame.executed
    /\ \E sv \in saves : sv.command.intent = "PauseVideoIntent"

\* C17: a command is executed for an interim result only if the result's
\* confidence is above 0.8 (and it matched), and the commands executed for one
\* utterance, interim and final together, are never more than two.
C17_AtMostTwoPerUtterance ==
    /\ (hist.frame.executed /\ ~hist.frame.from.final)
          => hist.frame.confidence > 80
    /\ hist.frame.executions <= 2

\* C20: when the matcher runs for a final transcript the machine is in
\* Processing (isProcessing = true), and once the frame callback has decided
\* it is no longer in Processing for that transcript.
C20_ProcessingAroundMatcher ==
    /\ hist.frame.from.final => hist.frame.isProcessing
    /\ (hist.frame.from.final /\ frames = {} /\ \A k \in Sessions :
                                                  sess[k].status # "transcribing")
          => ~st.isProcessing

\* C19: every recognition session is opened with continuous equal to the value
\* alwaysListening has at that moment, the session opened by
\* toggleAlwaysListening included.
C19_ContinuousFollowsMode ==
    /\ ~hist.mode
    /\ \A k \in Sessions :
          (sess[k].kind = "recognition" /\ hist.toggles = 0)
             => sess[k].continuous = st.alwaysListening

\* C18: whenever alwaysListening is true and a capture session has gone
\* inactive with no end or error event, a later keep-alive tick opens a new
\* session (unless the user stops listening or leaves the mode meanwhile).
C18_KeepAliveReopens ==
    \A k \in 1..(MaxSessions - 1) :
        (Len(sess) = k /\ sess[k].status = "inactive" /\ st.alwaysListening)
           ~> (Len(sess) > k \/ ~st.alwaysListening \/ hist.idle)

----------------------------------------------------------------------------
(* Storage: StorageProvider.tsx, and its callers loadSettings               *)
(* (part_001:59-119) and RootLayoutNav (_layout.tsx:67-120)                 *)

\* the characters /[a-zA-Z]/ matches
Letters ==
    { "a", "b", "c", "d", "e", "f", "g", "h", "i", "j", "k", "l", "m", "n", "o", "p", "q", "r", "s", "t", "u", "v", "w", "x", "y", "z",
      "A", "B", "C", "D", "E", "F", "G", "H", "I", "J", "K", "L", "M", "N", "O", "P", "Q", "R", "S", "T", "U", "V", "W", "X", "Y", "Z" }

\* the corruption markers getItem looks for (StorageProvider.tsx:58-60)
ObjectObjectMarker == << "o", "b", "j", "e", "c", "t", " ", "O", "b", "j", "e", "c", "t" >>
UndefinedMarker == << "u", "n", "d", "e", "f", "i", "n", "e", "d" >>
NaNMarker == << "N", "a", "N" >>

\* what JSON.stringify gives for the settings saveSettings writes
\* (part_001:229-237), for a usage count of one digit
BoolText(b) == IF b THEN << "t", "r", "u", "e" >> ELSE << "f", "a", "l", "s", "e" >>
DigitText(n) ==
    << CASE n = 0 -> "0" [] n = 1 -> "1" [] n = 2 -> "2" [] n = 3 -> "3"
         [] n = 4 -> "4" [] OTHER -> "9" >>
SettingsJson(always, usage) ==
    << "{", "\"", "a", "l", "w", "a", "y", "s", "L", "i", "s", "t", "e", "n", "i", "n", "g", "\"", ":" >> \o BoolText(always)
       \o << ",", "\"", "u", "s", "a", "g", "e", "C", "o", "u", "n", "t", "\"", ":" >> \o DigitText(usage) \o << "}" >>

EmptyObjectJson == << "{", "}" >>
ObjectObjectValue == << "[", "o", "b", "j", "e", "c", "t", " ", "O", "b", "j", "e", "c", "t", "]" >>
NaNValue == << "{", "\"", "u", "s", "a", "g", "e", "C", "o", "u", "n", "t", "\"", ":", "N", "a", "N", "}" >>
UndefinedValue == << "{", "\"", "a", "\"", ":", "u", "n", "d", "e", "f", "i", "n", "e", "d", "}" >>
TrueFlag == << "t", "r", "u", "e" >>
LongNumber == << "1", "2", "3", "4", "5", "6", "7", "8", "9", "0", "1" >>
PaddedNumber == << "1", "2", "3", "4", "5", "6", "7", "8", "9", "0", " " >>
BadJson == << "{", "1", "}" >>
ShortNumber == << "1" >>

\* the strings a key may hold: what the app writes (settings, the flag
\* 'true'), and what a failed or foreign write may have left
StoredValues ==
    { SettingsJson(TRUE, 1), EmptyObjectJson, ObjectObjectValue, NaNValue,
      UndefinedValue, TrueFlag, LongNumber, PaddedNumber, BadJson, ShortNumber }

\* the keys of the provider settings and of the onboarding flag
StorageKeys == { "voiceControlSettings", "hasCompletedVoiceOnboarding" }

\* what is written under a key: any of the strings under the settings key,
\* the flag and two strings that are not the flag under the flag key
ValuesFor(key) ==
    IF key = "voiceControlSettings"
    THEN StoredValues
    ELSE { TrueFlag, EmptyObjectJson, ShortNumber }

\* the test with the corruption markers alone
LooksCorruptedByMarker(data) ==
    LET cleaned == trim(data) IN
    \/ includes(cleaned, ObjectObjectMarker)
    \/ includes(cleaned, UndefinedMarker)
    \/ includes(cleaned, NaNMarker)

\* the test of getItem on the trimmed value (StorageProvider.tsx:56-62)
LooksCorrupted(data) ==
    LET cleaned == trim(data) IN
    \/ includes(cleaned, ObjectObjectMarker)
    \/ includes(cleaned, UndefinedMarker)
    \/ includes(cleaned, NaNMarker)
    \/ (cleaned # << >> /\ Head(cleaned) \in Letters)
    \/ (~includes(cleaned, << "{" >>) /\ ~includes(cleaned, << "[" >>)
          /\ Len(cleaned) > 10)

\* AsyncStorage.removeItem
removeItem(store, key) == [ k \in (DOMAIN store) \ { key } |-> store[k] ]

\* AsyncStorage.setItem through StorageProvider.setItem (76-90); the keys of
\* the app are non-empty literals and the value is a string
setItem(store, key, value) ==
    [ k \in (DOMAIN store) \cup { key } |-> IF k = key THEN value ELSE store[k] ]

\* StorageProvider.getItem (47-74): the store after the call and what the
\* call returns (data, when isNull is false)
getItem(store, key) ==
    IF key \notin DOMAIN store
    THEN [ store |-> store, isNull |-> TRUE, data |-> << >> ]
    ELSE IF Len(store[key]) > 0 /\ LooksCorrupted(store[key])
         THEN [ store |-> removeItem(store, key), isNull |-> TRUE, data |-> << >> ]
         ELSE [ store |-> store, isNull |-> FALSE, data |-> store[key] ]

\* JSON.parse on the strings of the model: whether it throws, and for an
\* object the two properties loadSettings reads
NotParsed ==
    [ throws |-> TRUE, hasAlways |-> FALSE, always |-> FALSE,
      hasUsage |-> FALSE, usage |-> 0 ]
JSONparse(s) ==
    IF s = EmptyObjectJson
    THEN [ NotParsed EXCEPT !.throws = FALSE ]
    ELSE IF \E a \in BOOLEAN, u \in 0..4 : s = SettingsJson(a, u)
         THEN LET p == CHOOSE p \in BOOLEAN \X (0..4) : s = SettingsJson(p[1], p[2])
              IN  [ throws |-> FALSE, hasAlways |-> TRUE, always |-> p[1],
                    hasUsage |-> TRUE, usage |-> p[2] ]
         ELSE NotParsed

\* the checks of loadSettings before it applies a value (part_001:66-96):
\* the parsed object, or throws
ParseSettings(settings) ==
    LET trimmedSettings == trim(settings) IN
    IF Head(trimmedSettings) # "{" \/ trimmedSettings[Len(trimmedSettings)] # "}"
    THEN NotParsed
    ELSE IF \/ includes(trimmedSettings, ObjectObjectMarker)
            \/ includes(trimmedSettings, UndefinedMarker)
            \/ includes(trimmedSettings, NaNMarker)
            \/ Head(trimmedSettings) \in Letters
         THEN NotParsed
         ELSE JSONparse(trimmedSettings)

\* what the call saw: the key, whether it was stored and with what, and the
\* settings of the provider before it
Called(name, key, got) ==
    [ name |-> name, key |-> key, sid |-> 0, found |-> key \in DOMAIN asyncStorage,
      before |-> IF key \in DOMAIN asyncStorage THEN asyncStorage[key] ELSE << >>,
      isNull |-> got.isNull, data |-> got.data, list |-> << >>,
      st0 |-> [ alwaysListening |-> st.alwaysListening,
                usageCount |-> st.usageCount ] ]

storageFrame ==
    UNCHANGED << matcherVars, playerVars, view, platform, sess, recognition,
                 mediaRecorder, keepAliveInterval, intervals, restartTimers,
                 toggles, frames, saves, storedSettings, hist, membership,
                 bookmarks, folders, originalBookmarks >>

\* some component reads a key
GetItem(key) ==
    /\ Rendered
    /\ LET got == getItem(asyncStorage, key) IN
        /\ asyncStorage' = got.store
        /\ call' = Called("getItem", key, got)
    /\ UNCHANGED << st, layout >>
    /\ storageFrame

\* some component writes a key
SetItem(key, value) ==
    /\ Rendered
    /\ asyncStorage' = setItem(asyncStorage, key, value)
    /\ call' = Called("setItem", key, [ isNull |-> FALSE, data |-> value ])
    /\ UNCHANGED << st, layout >>
    /\ storageFrame

\* loadSettings (part_001:59-119)
loadSettings ==
    /\ Rendered
    /\ LET key == "voiceControlSettings"
           got == getItem(asyncStorage, key)
           usable == ~got.isNull /\ trim(got.data) # << >>
           parsed == IF usable THEN ParseSettings(got.data) ELSE NotParsed
       IN
        /\ call' = Called("loadSettings", key, got)
        /\ IF ~usable
           THEN /\ asyncStorage' = got.store
                /\ st' = st
           ELSE IF parsed.throws
                THEN /\ asyncStorage' = removeItem(got.store, key)
                     /\ st' = st
                ELSE /\ asyncStorage' = got.store
                     /\ st' = [ st EXCEPT
                           !.alwaysListening =
                               IF parsed.hasAlways THEN parsed.always ELSE FALSE,
                           !.usageCount =
                               IF parsed.hasUsage THEN parsed.usage ELSE 0 ]
    /\ UNCHANGED layout
    /\ storageFrame

\* the effect of RootLayoutNav at launch: checkFirstTimeUser with its two
\* timers of 1500 ms and 2000 ms fired (_layout.tsx:67-102).  The call
\* recorded is the read of the onboarding flag
checkFirstTimeUser(hasUsedReferralCode) ==
    /\ Rendered
    /\ LET seen == getItem(asyncStorage, "hasSeenReferralModal")
           key == "hasCompletedVoiceOnboarding"
           done == getItem(seen.store, key)
           hasSeenModal == ~seen.isNull /\ seen.data # << >>
           isFirstTime == ~hasSeenModal /\ ~hasUsedReferralCode
       IN
        /\ asyncStorage' = done.store
        /\ layout' = [ showReferralModal |-> isFirstTime,
                       showVoiceOnboarding |-> (done.isNull \/ done.data # TrueFlag),
                       hasCheckedFirstTime |-> TRUE ]
        /\ call' = [ Called("checkFirstTimeUser", key, done) EXCEPT
                       !.found = key \in DOMAIN seen.store,
                       !.before = IF key \in DOMAIN seen.store
                                  THEN seen.store[key] ELSE << >> ]
    /\ UNCHANGED st
    /\ storageFrame

\* handleModalClose (_layout.tsx:104-111)
handleModalClose ==
    /\ Rendered
    /\ layout.showReferralModal
    /\ layout' = [ layout EXCEPT !.showReferralModal = FALSE ]
    /\ asyncStorage' = setItem(asyncStorage, "hasSeenReferralModal", TrueFlag)
    /\ call' = Called("setItem", "hasSeenReferralModal",
                      [ isNull |-> FALSE, data |-> TrueFlag ])
    /\ UNCHANGED st
    /\ storageFrame

\* handleCompleteVoiceOnboarding (_layout.tsx:113-120)
handleCompleteVoiceOnboarding ==
    /\ Rendered
    /\ layout.showVoiceOnboarding
    /\ asyncStorage' = setItem(asyncStorage, "hasCompletedVoiceOnboarding", TrueFlag)
    /\ layout' = [ layout EXCEPT !.showVoiceOnboarding = FALSE ]
    /\ call' = Called("setItem", "hasCompletedVoiceOnboarding",
                      [ isNull |-> FALSE, data |-> TrueFlag ])
    /\ UNCHANGED st
    /\ storageFrame

\* the settings and the onboarding flag, read and written in any order
StorageInit == Init /\ platform = "recognition"

StorageNext ==
    \/ \E key \in StorageKeys : GetItem(key)
    \/ \E key \in StorageKeys : \E value \in ValuesFor(key) : SetItem(key, value)
    \/ loadSettings
    \/ Render
    \/ \E hasUsedReferralCode \in BOOLEAN : checkFirstTimeUser(hasUsedReferralCode)
    \/ handleModalClose
    \/ handleCompleteVoiceOnboarding

StorageSpec == StorageInit /\ [][StorageNext]_vars

\* the corruption heuristics spelled out, on the trimmed value
MatchesHeuristics(v) ==
    LET t == trim(v) IN
    \/ includes(t, << "o", "b", "j", "e", "c", "t", " ", "O", "b", "j", "e", "c", "t" >>)
    \/ includes(t, << "u", "n", "d", "e", "f", "i", "n", "e", "d" >>)
    \/ includes(t, << "N", "a", "N" >>)
    \/ (t # << >> /\ Head(t) \in Letters)
    \/ (Len(t) > 10 /\ ~\E i \in 1..Len(t) : t[i] \in { "{", "[" })

C25_RoundTrip ==
    /\ (call.name = "getItem" /\ call.found)
       => /\ ~call.isNull
          /\ call.data = call.before
          /\ call.key \in DOMAIN asyncStorage
          /\ asyncStorage[call.key] = call.before
    /\ (call.name = "checkFirstTimeUser" /\ call.found /\ call.before = TrueFlag)
       => /\ ~layout.showVoiceOnboarding
          /\ call.key \in DOMAIN asyncStorage

----------------------------------------------------------------------------
(* transcribeAudio and its outcomes (part_001:397-426)                     *)

\* how a transcribeAudio call ends: a 2xx response, another status, a
\* rejected fetch, or no fetch at all (part_001:401-404)
TranscribeOutcomes == { "ok", "http", "throw", "unavailable" }

\* the transcribeAudio call of session k, as ended
TranscribeCall(k, outcome, t) ==
    [ NoCall EXCEPT !.name = "transcribeAudio", !.key = outcome, !.sid = k,
                    !.found = outcome # "unavailable", !.data = t ]

transcribeFrame ==
    UNCHANGED << matcherVars, playerVars, restOfProvider, asyncStorage, layout,
                 membership, bookmarks, folders, originalBookmarks >>

\* mediaRecorder.onstop of session k where FormData or fetch is undefined:
\* transcribeAudio returns before the request and onstop goes on
\* (part_001:471-484, 398-404, 423-425)
RecorderStoppedNoFetch(k) ==
    /\ Rendered
    /\ k \in Sessions
    /\ sess[k].status = "stopped"
    /\ Commit(transcribed(onstop(Cur, k), k, "unavailable", << >>))
    /\ call' = TranscribeCall(k, "unavailable", << >>)
    /\ transcribeFrame

\* the transcription request of session k settles: with the text t when the
\* response is 2xx, without a text otherwise (part_001:415-425)
TranscribeAudioSettled(k, outcome, t) ==
    /\ Rendered
    /\ k \in Sessions
    /\ sess[k].status = "transcribing"
    /\ outcome # "unavailable"
    /\ (outcome = "ok") = (t # << >>)
    /\ outcome = "ok" => hist.results < MaxResults
    /\ Commit(transcribed(
          IF outcome = "ok" THEN [ Cur EXCEPT !.hist.results = @ + 1 ] ELSE Cur,
          k, outcome, t))
    /\ call' = TranscribeCall(k, outcome, t)
    /\ transcribeFrame

\* the recorder path alone: record, stop, transcribe, dispatch, where the
\* microphone is granted and always-listening is off, so that no restart
\* timer and no keep-alive is armed
TranscribeInit ==
    Init /\ platform = "recorder" /\ ~st.alwaysListening /\ st.usageCount = 0

NextTranscribe ==
    \/ Render
    \/ UserStart
    \/ UserStop
    \/ \E k \in 1..MaxSessions : GetUserMediaResolved(k)
    \/ \E k \in 1..MaxSessions : StopTimer(k)
    \/ \E k \in 1..MaxSessions : RecorderStopped(k)
    \/ \E k \in 1..MaxSessions : RecorderStoppedNoFetch(k)
    \/ \E k \in 1..MaxSessions, outcome \in TranscribeOutcomes,
          t \in { PauseWord, << >> } :
             TranscribeAudioSettled(k, outcome, t)
    \/ \E f \in frames : AnimationFrame(f)
    \/ \E sv \in saves : SaveDone(sv)

TranscribeSpec == TranscribeInit /\ [][NextTranscribe]_vars

\* C22: the step that ends a transcribeAudio call leaves isProcessing false
\* and the session ended; and when the call ended without a 2xx response
\* that step queues no command, dispatches none, and puts no request in
\* flight
C22_FailureEndsQuietly ==
    [][ (call' # call /\ call'.name = "transcribeAudio")
        => /\ ~st'.isProcessing
           /\ sess'[call'.sid].status = "ended"
           /\ call'.key # "ok"
              => /\ frames' = frames
                 /\ saves' = saves
                 /\ lastEvent' = lastEvent
                 /\ \A k \in DOMAIN sess' :
                       sess'[k].status = "transcribing"
                          => (k \in DOMAIN sess /\ sess[k].status = "transcribing")
      ]_vars

\* a request has come back with another status while a second session's
\* request was still in flight
C22_Witness ==
    /\ call.name = "transcribeAudio"
    /\ call.key = "http"
    /\ \E k \in DOMAIN sess : sess[k].status = "transcribing"

\* C23: a save pressed with a blank name, with no action picked, or with a
\* name that a saved command has (whatever the case of its letters) changes
\* neither the list of custom commands nor the form: name, action, command
\* being edited and modal visibility
C23_RejectedSaveChangesNothing ==
    [][ ( /\ op' # op
          /\ op'.path = "saveCustomCommand"
          /\ \/ trim(commandForm.commandName) = << >>
             \/ commandForm.commandAction = ""
             \/ \E i \in 1..Len(customCommands) :
                   toLowerCase(customCommands[i].name)
                      = toLowerCase(commandForm.commandName) )
        => /\ customCommands' = customCommands
           /\ commandForm' = commandForm
           /\ commandForm'.showCustomCommandModal
      ]_vars

\* 'Pa' has been refused because 'pa' is saved, and the form still holds it
C23_Witness ==
    /\ op.key = "command_name_exists"
    /\ commandForm.commandName = << "P", "a" >>
    /\ commandForm.commandAction # ""
    /\ commandForm.showCustomCommandModal
    /\ \E i \in 1..Len(customCommands) : customCommands[i].name = << "p", "a" >>

\* the intent that carries the same name as a key of the action picker
IntentOfKey(key) ==
    CASE key = "play" -> "PlayVideoIntent"
      [] key = "pause" -> "PauseVideoIntent"
      [] key = "stop" -> "StopVideoIntent"
      [] key = "next" -> "NextVideoIntent"
      [] key = "previous" -> "PreviousVideoIntent"
      [] key = "restart" -> "ReplayVideoIntent"
      [] key = "forward_10" -> "Forward10Intent"
      [] key = "forward_20" -> "Forward20Intent"
      [] key = "forward_30" -> "Forward30Intent"
      [] key = "rewind_10" -> "Rewind10Intent"
      [] key = "rewind_20" -> "Rewind20Intent"
      [] key = "rewind_30" -> "Rewind30Intent"
      [] key = "volume_max" -> "VolumeMaxIntent"
      [] key = "mute" -> "MuteIntent"
      [] key = "unmute" -> "UnmuteIntent"
      [] key = "volume_up" -> "VolumeUpIntent"
      [] key = "volume_down" -> "VolumeDownIntent"
      [] key = "fullscreen" -> "EnterFullscreenIntent"
      [] key = "exit_fullscreen" -> "ExitFullscreenIntent"
      [] key = "speed_0_5" -> "SpeedHalfIntent"
      [] key = "speed_normal" -> "SpeedNormalIntent"
      [] key = "speed_1_25" -> "Speed125Intent"
      [] key = "speed_1_5" -> "Speed150Intent"
      [] OTHER -> "Speed200Intent"

\* the keys of the picker whose custom action leaves the screen as the
\* 'voiceCommand' listener leaves it for the intent of the same name
KeysAgreeing ==
    { i \in DOMAIN PickerKeys :
        executeCustomAction(Screen, PickerKeys[i])
          = handleVoiceCommand(Screen, [ command |-> IntentOfKey(PickerKeys[i]) ]) }

\* C24: on every screen the player can show, each key of the action picker
\* run as a custom action leaves the player, the fullscreen flag and the
\* volume snapshot exactly as the 'voiceCommand' listener leaves them for the
\* intent of the same name
C24_CustomMatchesIntent == KeysAgreeing = DOMAIN PickerKeys

\* the keys that differ from their intent on some screen are only these
OnlyStopAndRestartDiffer ==
    \A i \in (DOMAIN PickerKeys) \ KeysAgreeing : PickerKeys[i] \in { "stop", "restart" }

\* C26: a volume_down action, by whichever path, leaves the player's volume
\* no higher than it was before the action, and a volume_up action no lower,
\* wherever the status poll falls between the actions
C26_VolumeMovesOneWay ==
    /\ op.key \in VolumeDownKeys => videoPlayer.volume <= op.volume
    /\ op.key \in VolumeUpKeys => videoPlayer.volume >= op.volume

\* C27: a forward_N action, by whichever path, leaves the position no earlier
\* than it was before the action, and a rewind_N action no later, whatever
\* the duration the player reports
C27_SeekMovesOneWay ==
    /\ op.key \in ForwardKeys => videoPlayer.currentTime >= op.currentTime
    /\ op.key \in RewindKeys => videoPlayer.currentTime <= op.currentTime

----------------------------------------------------------------------------
(* Membership: MembershipProvider.tsx.  All calls fall on the day of        *)
(* lastResetDate, so the daily reset of canUseFeature (89-98) does not run. *)

MaxUses == 5

\* canUseFeature (MembershipProvider.tsx:88-112), on the state of the render
\* that created it
canUseFeature(state) ==
    CASE state.tier = "trial" -> state.trialUsageRemaining > 0
      [] state.tier = "free" -> state.dailyUsageCount < FreeDaily
      [] state.tier = "basic" ->
             state.monthlyUsageRemaining > 0 \/ state.dailyUsageCount < BasicDailyBonus
      [] state.tier = "premium" -> TRUE
      [] OTHER -> FALSE

\* the newState of useFeature (MembershipProvider.tsx:119-137)
usedState(state) ==
    LET counted == [ state EXCEPT !.usageCount = @ + 1, !.dailyUsageCount = @ + 1 ]
    IN  CASE state.tier = "trial" ->
                 LET left == state.trialUsageRemaining - 1
                 IN  IF left = 0
                     THEN [ counted EXCEPT !.trialUsageRemaining = left,
                                           !.tier = "free", !.trialUsed = TRUE ]
                     ELSE [ counted EXCEPT !.trialUsageRemaining = left ]
          [] state.tier = "basic" ->
                 IF state.monthlyUsageRemaining > 0
                 THEN [ counted EXCEPT !.monthlyUsageRemaining = @ - 1 ]
                 ELSE counted
          [] OTHER -> counted

memberFrame ==
    UNCHANGED << matcherVars, providerVars, playerVars, hist, asyncStorage,
                 layout, bookmarks, folders, originalBookmarks, call >>

\* useFeature (MembershipProvider.tsx:114-142), called from the latest
\* render: it reads the state of that render, sets the state to newState and
\* saves newState.  JSON.stringify of the state starts with '{' and holds
\* none of the markers of getItem, so what is saved is what is read back.
useFeature ==
    /\ membership.calls < MaxUses
    /\ LET state == membership.view
           newState == usedState(state)
       IN  IF ~canUseFeature(state)
           THEN membership' =
                    [ membership EXCEPT
                        !.calls = @ + 1,
                        !.last = [ returned |-> FALSE, changed |-> FALSE ] ]
           ELSE membership' =
                    [ membership EXCEPT
                        !.state = newState,
                        !.stored = newState,
                        !.calls = @ + 1,
                        !.trialUses = @ + (IF state.tier = "trial" THEN 1 ELSE 0),
                        !.last = [ returned |-> TRUE,
                                   changed |-> newState # membership.state
                                                 \/ newState # membership.stored ] ]
    /\ memberFrame

\* React re-renders the membership provider: useFeature is created again
\* with the current state
RenderMembership ==
    /\ membership.view # membership.state
    /\ membership' = [ membership EXCEPT !.view = membership.state ]
    /\ memberFrame

\* a member as loaded: on the trial with all, three, two or one use left, or on the
\* free tier one use before the daily limit
LoadedMembers ==
    { [ MembershipInitial EXCEPT !.trialUsageRemaining = left,
                                 !.usageCount = TrialTotal - left,
                                 !.isFirstLogin = FALSE ]
        : left \in { TrialTotal, 3, 2, 1 } }
    \cup
    { [ MembershipInitial EXCEPT !.tier = "free", !.trialUsed = TRUE,
                                 !.trialUsageRemaining = 0,
                                 !.usageCount = TrialTotal + FreeDaily - 1,
                                 !.dailyUsageCount = FreeDaily - 1,
                                 !.isFirstLogin = FALSE ] }

MembershipInit ==
    /\ voiceIntents = MachineIntents
    /\ voiceCommands = MachineCommands
    /\ language = "en"
    /\ text = << >>
    /\ matched = Null
    /\ platform = "recognition"
    /\ InitMachine(FALSE, 0)
    /\ InitPlayer
    /\ asyncStorage = EmptyStorage
    /\ layout = [ showReferralModal |-> FALSE, showVoiceOnboarding |-> FALSE,
                  hasCheckedFirstTime |-> FALSE ]
    /\ \E s \in LoadedMembers : membership = Member(s)
    /\ bookmarks = << >>
    /\ folders = defaultFolders
    /\ originalBookmarks = << >>
    /\ call = NoCall

MembershipNext ==
    \/ useFeature
    \/ RenderMembership

MembershipSpec == MembershipInit /\ [][MembershipNext]_vars

\* C28: the uses that succeeded on the trial tier are at most the uses the
\* trial had left, and trialUsageRemaining is what it had left minus those
\* uses, never below 0; once it is 0 the tier is 'free' and trialUsed is set;
\* and a useFeature call that returned false changed neither the state nor
\* the stored data
C28_TrialCountsEveryUse ==
    /\ membership.trialUses <= membership.start
    /\ membership.state.trialUsageRemaining = membership.start - membership.trialUses
    /\ membership.state.trialUsageRemaining >= 0
    /\ membership.state.trialUsageRemaining = 0
          => (membership.state.tier = "free" /\ membership.state.trialUsed)
    /\ ~membership.last.returned => ~membership.last.changed

----------------------------------------------------------------------------
(* Bookmarks: BookmarkProvider.tsx.  Each operation is called from the      *)
(* latest render, so its closure holds the current lists.                   *)

MaxBookmarks == 2
MaxStamps == 3

\* a bookmark, with the fields the operations read (BookmarkProvider.tsx:6-18)
Bookmark(id, title, url, folderId) ==
    [ id |-> id, title |-> title, url |-> url, folderId |-> folderId ]

\* `folder_${Date.now()}`  (BookmarkProvider.tsx:267)
FolderId(stamp) ==
    CASE stamp = 0 -> "folder_0" [] stamp = 1 -> "folder_1" [] stamp = 2 -> "folder_2"
      [] stamp = 3 -> "folder_3" [] OTHER -> "folder_4"

\* categorizeBookmark with the default keywords (BookmarkProvider.tsx:344-367):
\* the title 'chatgpt' holds the keywords 'chatgpt' and 'gpt' of the category
\* ai, 3 points each; the title 'notes' and the urls hold no keyword
categorizeBookmark(bookmark) ==
    IF bookmark.title = "chatgpt" THEN << "ai" >> ELSE << >>

\* the list holds a bookmark with this id
HasId(list, id) == \E i \in DOMAIN list : list[i].id = id

\* list.filter(b => b.id !== bookmarkId)
WithoutId(list, bookmarkId) == SelectSeq(list, LAMBDA b : b.id # bookmarkId)

\* folder.bookmarks.push(bookmark) into the folders named by its categories,
\* unless the folder is missing or holds it already (BookmarkProvider.tsx:
\* 222-227, 332-337)
RECURSIVE PushInto(_, _, _)
PushInto(fs, categories, bookmark) ==
    IF categories = << >> THEN fs
    ELSE PushInto(
           [ i \in DOMAIN fs |->
               IF fs[i].id = Head(categories)
                  /\ (\A j \in 1..(i - 1) : fs[j].id # Head(categories))
                  /\ ~HasId(fs[i].bookmarks, bookmark.id)
               THEN [ fs[i] EXCEPT !.bookmarks = Append(@, bookmark) ]
               ELSE fs[i] ],
           Tail(categories), bookmark)

\* addBookmark (BookmarkProvider.tsx:209-233): the two lists it sets
addBookmark(bs, fs, stamp, input) ==
    LET newBookmark == Bookmark(stamp, input.title, input.url, input.folderId)
    IN  [ bookmarks |-> Append(bs, newBookmark),
          folders |-> PushInto(fs, categorizeBookmark(newBookmark), newBookmark) ]

\* deleteBookmark (BookmarkProvider.tsx:235-244)
deleteBookmark(bs, fs, bookmarkId) ==
    [ bookmarks |-> WithoutId(bs, bookmarkId),
      folders |-> [ i \in DOMAIN fs |->
                      [ fs[i] EXCEPT !.bookmarks = WithoutId(@, bookmarkId) ] ] ]

\* addFolder (BookmarkProvider.tsx:258-281), with maxFolders at its default
addFolder(bs, fs, stamp, categoryId) ==
    IF Len(SelectSeq(fs, LAMBDA f : f.categoryId = categoryId)) >= 5
    THEN [ bookmarks |-> bs, folders |-> fs ]
    ELSE [ bookmarks |-> bs,
           folders |-> Append(fs, Folder(FolderId(stamp), FALSE, categoryId, << >>)) ]

\* deleteFolder (BookmarkProvider.tsx:283-293)
deleteFolder(bs, fs, folderId) ==
    IF ~\E i \in DOMAIN fs : fs[i].id = folderId /\ ~fs[i].builtIn
    THEN [ bookmarks |-> bs, folders |-> fs ]
    ELSE [ bookmarks |-> SelectSeq(bs, LAMBDA b : b.folderId # folderId),
           folders |-> SelectSeq(fs, LAMBDA f : f.id # folderId) ]

\* moveBookmarkToFolder (BookmarkProvider.tsx:303-319)
moveBookmarkToFolder(bs, fs, bookmarkId, folderId) ==
    IF ~HasId(bs, bookmarkId)
    THEN [ bookmarks |-> bs, folders |-> fs ]
    ELSE LET bookmark == bs[CHOOSE i \in DOMAIN bs :
                               /\ bs[i].id = bookmarkId
                               /\ \A j \in 1..(i - 1) : bs[j].id # bookmarkId]
         IN  [ bookmarks |-> bs,
               folders |-> [ i \in DOMAIN fs |->
                   IF fs[i].id = "all" THEN fs[i]
                   ELSE IF fs[i].id = folderId
                        THEN [ fs[i] EXCEPT !.bookmarks =
                                   Append(WithoutId(@, bookmarkId), bookmark) ]
                        ELSE [ fs[i] EXCEPT !.bookmarks = WithoutId(@, bookmarkId) ] ] ]

RECURSIVE PushAll(_, _)
PushAll(fs, list) ==
    IF list = << >> THEN fs
    ELSE PushAll(PushInto(fs, categorizeBookmark(Head(list)), Head(list)), Tail(list))

\* smartCategorize (BookmarkProvider.tsx:321-342), with the default keywords
smartCategorize(bs, fs) ==
    [ bookmarks |-> bs,
      folders |-> PushAll([ i \in DOMAIN fs |->
                              IF fs[i].id \in { "all", "favorites" } THEN fs[i]
                              ELSE [ fs[i] EXCEPT !.bookmarks = << >> ] ], bs),
      originalBookmarks |-> bs ]

\* restoreOriginalBookmarks (BookmarkProvider.tsx:369-381)
restoreOriginalBookmarks(bs, fs, original) ==
    IF Len(original) = 0
    THEN [ bookmarks |-> bs, folders |-> fs, originalBookmarks |-> original ]
    ELSE [ bookmarks |-> original,
           folders |-> [ i \in DOMAIN fs |->
                           IF fs[i].id = "all" THEN fs[i]
                           ELSE [ fs[i] EXCEPT !.bookmarks = << >> ] ],
           originalBookmarks |-> << >> ]

\* findDuplicates (BookmarkProvider.tsx:383-397): the ids of the bookmarks
\* whose url an earlier bookmark has; the urls of the model are in lower case
DuplicateIds(bs) ==
    { bs[i].id : i \in { i \in DOMAIN bs : \E j \in 1..(i - 1) : bs[j].url = bs[i].url } }

\* cleanupBookmarks (BookmarkProvider.tsx:399-414)
cleanupBookmarks(bs, fs) ==
    [ bookmarks |-> SelectSeq(bs, LAMBDA b : b.id \notin DuplicateIds(bs)),
      folders |-> [ i \in DOMAIN fs |->
                      [ fs[i] EXCEPT !.bookmarks =
                          SelectSeq(@, LAMBDA b : b.id \notin DuplicateIds(bs)) ] ] ]

\* importBookmarks (BookmarkProvider.tsx:416-423)
importBookmarks(bs, fs, newBookmarks) ==
    [ bookmarks |-> bs \o newBookmarks, folders |-> fs, originalBookmarks |-> bs ]

\* deleteFoldersByCategory (BookmarkProvider.tsx:482-494)
deleteFoldersByCategory(bs, fs, categoryId) ==
    LET folderIds == { fs[i].id : i \in { i \in DOMAIN fs : fs[i].categoryId = categoryId } }
    IN  [ bookmarks |->
              SelectSeq(bs, LAMBDA b :
                  (IF b.folderId = Undefined THEN "" ELSE b.folderId) \notin folderIds),
          folders |-> SelectSeq(fs, LAMBDA f : f.categoryId # categoryId) ]

\* deleteAllFolders (BookmarkProvider.tsx:497-505)
deleteAllFolders(bs, fs) ==
    [ bookmarks |->
          SelectSeq(bs, LAMBDA b :
              \/ b.folderId = Undefined
              \/ \E i \in DOMAIN fs : fs[i].id = b.folderId /\ fs[i].builtIn),
      folders |-> SelectSeq(fs, LAMBDA f : f.builtIn) ]

\* the categories of the category provider that are not built in
CustomCategories == { "c1" }

\* what the user adds, and the file of bookmarks the user imports
BookmarkTitles == { "chatgpt", "notes" }
ImportedBookmarks == << Bookmark(100, "notes", "u1", Undefined) >>

bookmarkFrame ==
    UNCHANGED << matcherVars, providerVars, videoPlayer, isFullscreen, volume,
                 lastEvent, customCommands, commandForm, op, hist, asyncStorage,
                 layout, membership >>

\* an operation has run: the lists it leaves, and what it was
BookmarkDid(name, after, key) ==
    /\ bookmarks' = after.bookmarks
    /\ folders' = after.folders
    /\ call' = [ NoCall EXCEPT !.name = name, !.key = key, !.list = bookmarks ]
    /\ bookmarkFrame

CustomFolderIds == { folders[i].id : i \in { i \in DOMAIN folders : ~folders[i].builtIn } }

AddBookmark(title, folderId) ==
    /\ now < MaxStamps
    /\ Len(bookmarks) < MaxBookmarks
    /\ folderId \in { Undefined } \cup CustomFolderIds
    /\ BookmarkDid("addBookmark",
          addBookmark(bookmarks, folders, now,
                      [ title |-> title, url |-> "u1", folderId |-> folderId ]),
          call.name)
    /\ now' = now + 1
    /\ UNCHANGED originalBookmarks

DeleteBookmark(bookmarkId) ==
    /\ HasId(bookmarks, bookmarkId)
    /\ BookmarkDid("deleteBookmark", deleteBookmark(bookmarks, folders, bookmarkId),
                   call.name)
    /\ UNCHANGED << now, originalBookmarks >>

AddFolder(categoryId) ==
    /\ now < MaxStamps
    /\ CustomFolderIds = {}
    /\ BookmarkDid("addFolder", addFolder(bookmarks, folders, now, categoryId), call.name)
    /\ now' = now + 1
    /\ UNCHANGED originalBookmarks

DeleteFolder(folderId) ==
    /\ folderId \in CustomFolderIds
    /\ BookmarkDid("deleteFolder", deleteFolder(bookmarks, folders, folderId), call.name)
    /\ UNCHANGED << now, originalBookmarks >>

MoveBookmarkToFolder(bookmarkId, folderId) ==
    /\ HasId(bookmarks, bookmarkId)
    /\ \E i \in DOMAIN folders : folders[i].id = folderId
    /\ BookmarkDid("moveBookmarkToFolder",
          moveBookmarkToFolder(bookmarks, folders, bookmarkId, folderId), call.name)
    /\ UNCHANGED << now, originalBookmarks >>

SmartCategorize ==
    /\ LET after == smartCategorize(bookmarks, folders)
       IN  /\ BookmarkDid("smartCategorize", after, call.name)
           /\ originalBookmarks' = after.originalBookmarks
    /\ UNCHANGED now

RestoreOriginalBookmarks ==
    /\ LET after == restoreOriginalBookmarks(bookmarks, folders, originalBookmarks)
       IN  /\ bookmarks' = after.bookmarks
           /\ folders' = after.folders
           /\ originalBookmarks' = after.originalBookmarks
           /\ call' = [ NoCall EXCEPT !.name = "restoreOriginalBookmarks",
                                      !.key = call.name, !.list = call.list ]
    /\ UNCHANGED now
    /\ bookmarkFrame

CleanupBookmarks ==
    /\ BookmarkDid("cleanupBookmarks", cleanupBookmarks(bookmarks, folders), call.name)
    /\ UNCHANGED << now, originalBookmarks >>

ImportBookmarks(newBookmarks) ==
    /\ Len(bookmarks) + Len(newBookmarks) <= MaxBookmarks
    /\ LET after == importBookmarks(bookmarks, folders, newBookmarks)
       IN  /\ BookmarkDid("importBookmarks", after, call.name)
           /\ originalBookmarks' = after.originalBookmarks
    /\ UNCHANGED now

DeleteFoldersByCategory(categoryId) ==
    /\ BookmarkDid("deleteFoldersByCategory",
          deleteFoldersByCategory(bookmarks, folders, categoryId), call.name)
    /\ UNCHANGED << now, originalBookmarks >>

DeleteAllFolders ==
    /\ BookmarkDid("deleteAllFolders", deleteAllFolders(bookmarks, folders), call.name)
    /\ UNCHANGED << now, originalBookmarks >>

BookmarkIds == (0..(MaxStamps - 1)) \cup { 100 }
FolderIds == { "ai", "favorites" } \cup { FolderId(stamp) : stamp \in 0..(MaxStamps - 1) }

BookmarkNext ==
    \/ \E title \in BookmarkTitles, folderId \in { Undefined } \cup FolderIds :
          AddBookmark(title, folderId)
    \/ \E bookmarkId \in BookmarkIds : DeleteBookmark(bookmarkId)
    \/ \E categoryId \in CustomCategories : AddFolder(categoryId)
    \/ \E folderId \in FolderIds : DeleteFolder(folderId)
    \/ \E bookmarkId \in BookmarkIds, folderId \in FolderIds :
          MoveBookmarkToFolder(bookmarkId, folderId)
    \/ SmartCategorize
    \/ RestoreOriginalBookmarks
    \/ CleanupBookmarks
    \/ ImportBookmarks(ImportedBookmarks)
    \/ \E categoryId \in CustomCategories : DeleteFoldersByCategory(categoryId)
    \/ DeleteAllFolders

\* the provider as it is created, with no bookmark stored
BookmarkInit == FormInit

BookmarkSpec == BookmarkInit /\ [][BookmarkNext]_vars

\* C29: every bookmark held in the list of a folder is in the global list
C29_FoldersHoldListedBookmarks ==
    \A i \in DOMAIN folders :
        \A j \in DOMAIN folders[i].bookmarks :
            HasId(bookmarks, folders[i].bookmarks[j].id)

\* C30: after restoreOriginalBookmarks called right after importBookmarks,
\* the global list is the list that importBookmarks found
C30_RestoreUndoesImport ==
    (call.name = "restoreOriginalBookmarks" /\ call.key = "importBookmarks")
       => bookmarks = call.list

====
